---- MODULE Spec2Model ----
(***************************************************************************)
(* HF band propagation simulation of supermorse-mumble                     *)
(* (src/supermorse-mumble/src/murmur/HFBandSimulation.{h,cpp}).            *)
(*                                                                         *)
(* The object's members are the fields of the record hf.  Every method is  *)
(* an operator from a state record to the state record the method leaves,  *)
(* so that a method calling another method is the composition the code     *)
(* writes (a setter ends with updatePropagation, a merge ends with it      *)
(* too).  An action is one call made by the host, by a timer or by a       *)
(* finished network reply.                                                 *)
(*                                                                         *)
(* m_mutex is a plain (non-recursive) QMutex and every method opens with   *)
(* QMutexLocker locker(&m_mutex).  Lock() counts the lockers the calling   *)
(* thread has open and records in selfWait the first method that asks for  *)
(* the mutex while the thread already owns it.  On a QMutex that request   *)
(* is never granted; the operators still carry the body of the method to   *)
(* its end, which is what the statements about the values the bodies       *)
(* compute are about, and selfWait keeps the fact that the call did not    *)
(* get there on its own lock.                                              *)
(*                                                                         *)
(* Numbers: the code's floats are fixed-point integers here, Scale units   *)
(* to 1.0 (a strength of 0.5 is 500); frequencies are in kHz, distances in *)
(* km, the clock in minutes.                                               *)
(***************************************************************************)
EXTENDS Integers, Sequences, FiniteSets, TLC

\* ------------------------------------------------------------------ bounds

\* minutes the clock advances in one step, and the last minute it reaches
\* initialize() is called on one object at most MaxReinit times where the
\* registry is watched
MaxReinit == 2

ClockStep == 30
MaxNow == 30
\* replies of one feed that may be outstanding at once
MaxInFlight == 1
\* initialize() calls explored in one run
MaxInit == 1

\* days of the year (15 January, 15 July) and the hour the runs start at
Days == {15, 196}
Hours == {12}

\* ------------------------------------------------------------- fixed point

Scale == 1000

\* a local variable: the value of e, computed once, under the name F gives it
Local(e, F(_)) == CHOOSE v \in {F(x) : x \in {e}} : TRUE

\* a bound that lets every value through
qBoundNone(lo, v0, hi) == v0

\* qBound(min, val, max) of QtGlobal
qBound(lo, v0, hi) ==
    Local(v0, LAMBDA v : IF v < lo THEN lo ELSE IF v > hi THEN hi ELSE v)

EmptyMap == [x \in {} |-> 0]

\* QHash::clear with every entry left in place
clearNothing(m) == m

\* QHash::clear, QHash::insert
clear(m) == EmptyMap
Insert(m, k, v) == [x \in DOMAIN m \cup {k} |-> IF x = k THEN v ELSE m[x]]

\* QHash::contains finding no key
containsNever(m, k) == FALSE

\* QHash::contains
contains(m, k) == k \in DOMAIN m

\* --------------------------------------------------------------- the state

VARIABLES
    hf,         \* the HFBandSimulation object
    now,        \* QDateTime::currentDateTime(): minutes since the run began,
    dayOfYear,  \*   the day of the year (1..365) and
    hour,       \*   the hour of the day the run began at
    qsMetadata, \* ServerUser::qsMetadata["maidenheadgrid"] of every user
    lastCall    \* the call that produced this state: method, argument,
                \*   result, and the keys m_signalStrengths held when it began

vars == <<hf, now, dayOfYear, hour, qsMetadata, lastCall>>
env == <<now, dayOfYear, hour, qsMetadata>>

\* initializeBandDefinitions(): band, frequency (kHz), minDistance,
\* maxDistance (km), reliability, dayFactor, nightFactor (Scale units)
Band(b, f, lo, hi, r, d, n) ==
    [band |-> b, frequency |-> f, minDistance |-> lo, maxDistance |-> hi,
     reliability |-> r, dayFactor |-> d, nightFactor |-> n]

initializeBandDefinitions(defs) ==
    defs \o
    << Band(160, 1900, 0, 1000, 800, 500, 1500),
       Band(80, 3750, 0, 1500, 850, 600, 1400),
       Band(60, 5350, 200, 2000, 800, 700, 1300),
       Band(40, 7150, 500, 3000, 900, 800, 1200),
       Band(30, 10125, 800, 4000, 850, 900, 1100),
       Band(20, 14175, 1000, 10000, 950, 1300, 700),
       Band(17, 18118, 1500, 12000, 900, 1400, 600),
       Band(15, 21225, 2000, 15000, 850, 1500, 500),
       Band(10, 28850, 3000, 20000, 800, 1600, 400),
       Band(6, 52000, 5000, 25000, 700, 1700, 300) >>

\* the pairs initialize() inserts into m_bandChannels: band -> channel id
BandChannelPairs ==
    {<<160, 1>>, <<80, 2>>, <<60, 3>>, <<40, 4>>, <<30, 5>>,
     <<20, 6>>, <<17, 7>>, <<15, 8>>, <<10, 9>>, <<6, 10>>}

\* the pairs initialize() inserts into m_channelBands: channel id -> band
ChannelBandPairs ==
    {<<1, 160>>, <<2, 80>>, <<3, 60>>, <<4, 40>>, <<5, 30>>,
     <<6, 20>>, <<7, 17>>, <<8, 15>>, <<9, 10>>, <<10, 6>>}

\* QMap::insert of every pair <<key, value>> of ps into the map m
InsertAll(m, ps) ==
    [k \in DOMAIN m \cup {p[1] : p \in ps} |->
        IF \E p \in ps : p[1] = k THEN (CHOOSE p \in ps : p[1] = k)[2] ELSE m[k]]

\* the constructor
Constructed ==
    [m_solarFluxIndex |-> 120,
     m_kIndex |-> 3,
     m_season |-> 0,
     m_autoTimeEnabled |-> TRUE,
     m_useExternalData |-> FALSE,
     m_useDXViewData |-> FALSE,
     m_useSWPCData |-> FALSE,
     m_lastExternalUpdate |-> now - 60,
     m_signalStrengths |-> EmptyMap,
     m_bandDefinitions |-> << >>,
     m_bandChannels |-> EmptyMap,
     m_channelBands |-> EmptyMap,
     m_updateTimer |-> FALSE,
     inFlight |-> [DXView |-> 0, SWPC |-> 0],
     requests |-> << >>,
     connected |-> FALSE,
     emitted |-> << >>,
     mutexDepth |-> 0,
     selfWait |-> "none"]

\* ------------------------------------------------------------------- mutex

\* QMutexLocker locker(&m_mutex) at the head of method fn
Lock(s0, fn) ==
    Local(s0, LAMBDA s :
        [s EXCEPT !.mutexDepth = @ + 1,
                  !.selfWait = IF s.mutexDepth > 0 /\ @ = "none" THEN fn ELSE @])

\* the locker's destructor
Unlock(s) == [s EXCEPT !.mutexDepth = @ - 1]

\* emit of a signal
Emit(s, sig) == [s EXCEPT !.emitted = Append(@, sig)]

\* ------------------------------------------------------------------ clock

\* QDate::month() of a day of a 365-day year
MonthOf(d) ==
    IF d <= 31 THEN 1 ELSE IF d <= 59 THEN 2 ELSE IF d <= 90 THEN 3
    ELSE IF d <= 120 THEN 4 ELSE IF d <= 151 THEN 5 ELSE IF d <= 181 THEN 6
    ELSE IF d <= 212 THEN 7 ELSE IF d <= 243 THEN 8 ELSE IF d <= 273 THEN 9
    ELSE IF d <= 304 THEN 10 ELSE IF d <= 334 THEN 11 ELSE 12

\* now.date().month(), now.time().hour(), now.time().minute()
Month == MonthOf(dayOfYear)
Hour == ((hour * 60 + now) \div 60) % 24
Minute == (hour * 60 + now) % 60

\* ----------------------------------------------------------- trigonometry

\* angles are in AngUnit-ths of a degree, sines and cosines in TrigScale-ths
AngUnit == 48
TrigScale == 10000

\* sin of 0, 1, ..., 90 degrees
SinTable ==
    <<0, 175, 349, 523, 698, 872, 1045, 1219, 1392, 1564, 1736, 1908, 2079,
      2250, 2419, 2588, 2756, 2924, 3090, 3256, 3420, 3584, 3746, 3907, 4067, 4226,
      4384, 4540, 4695, 4848, 5000, 5150, 5299, 5446, 5592, 5736, 5878, 6018, 6157,
      6293, 6428, 6561, 6691, 6820, 6947, 7071, 7193, 7314, 7431, 7547, 7660, 7771,
      7880, 7986, 8090, 8192, 8290, 8387, 8480, 8572, 8660, 8746, 8829, 8910, 8988,
      9063, 9135, 9205, 9272, 9336, 9397, 9455, 9511, 9563, 9613, 9659, 9703, 9744,
      9781, 9816, 9848, 9877, 9903, 9925, 9945, 9962, 9976, 9986, 9994, 9998, 10000>>

\* sin of an angle of the first quadrant, between the table's degrees by
\* linear interpolation
SinQ1(a) ==
    Local(a \div AngUnit, LAMBDA d :
        IF d >= 90 THEN TrigScale
        ELSE SinTable[d + 1]
             + ((SinTable[d + 2] - SinTable[d + 1]) * (a % AngUnit)) \div AngUnit)

Sin(a) ==
    Local(a % (360 * AngUnit), LAMBDA r :
        IF r <= 90 * AngUnit THEN SinQ1(r)
        ELSE IF r <= 180 * AngUnit THEN SinQ1(180 * AngUnit - r)
        ELSE IF r <= 270 * AngUnit THEN -SinQ1(r - 180 * AngUnit)
        ELSE -SinQ1(360 * AngUnit - r))

Cos(a) == Sin(a + 90 * AngUnit)

\* the angle of the first quadrant whose sine is v (0 <= v <= TrigScale)
AsinQ1(v0) ==
    Local(v0, LAMBDA v :
        IF v >= TrigScale THEN 90 * AngUnit
        ELSE LET d == CHOOSE k \in 0..89 : SinTable[k + 1] <= v /\ v < SinTable[k + 2]
             IN  d * AngUnit
                 + ((v - SinTable[d + 1]) * AngUnit)
                   \div (SinTable[d + 2] - SinTable[d + 1]))

Acos(v0) ==
    Local(v0, LAMBDA v :
        IF v >= 0 THEN 90 * AngUnit - AsinQ1(v) ELSE 90 * AngUnit + AsinQ1(-v))

RECURSIVE SqrtBetween(_, _, _)
SqrtBetween(x, lo, hi) ==
    IF lo >= hi THEN lo
    ELSE Local((lo + hi + 1) \div 2, LAMBDA mid :
             IF mid * mid <= x THEN SqrtBetween(x, mid, hi)
             ELSE SqrtBetween(x, lo, mid - 1))

\* floor of the square root of x, 0 <= x <= TrigScale^2
Sqrt(x0) == Local(x0, LAMBDA x : SqrtBetween(x, 0, TrigScale))

\* exp(-y), y >= 0 and the result in Scale-ths: e^-n of the whole part by
\* the table, the fraction by its series
ExpTable == <<1000000, 367879, 135335, 49787, 18316, 6738, 2479, 912, 335, 123, 45, 17, 6, 2, 1>>

ExpNeg(y0) ==
    Local(y0, LAMBDA y :
    LET n == y \div Scale
        f == y % Scale
        series == Scale - f + (f * f) \div (2 * Scale)
                  - (((f * f) \div Scale) * f) \div (6 * Scale)
                  + ((((((f * f) \div Scale) * f) \div Scale) * f) \div Scale) \div 24
    IN  IF n >= Len(ExpTable) THEN 0
        ELSE ((ExpTable[n + 1] \div Scale) * series) \div Scale)

\* x * y of two Scale-th fixed-point numbers
Mul(x, y) == (x * y) \div Scale

\* ------------------------------------------------------ Maidenhead locator

\* a locator is the tuple of its characters' codes
toUpper(c) == IF c >= 97 /\ c <= 122 THEN c - 32 ELSE c
toLower(c) == IF c >= 65 /\ c <= 90 THEN c + 32 ELSE c

\* gridToLatLon with the sub-square's offset added to the square's centre
gridToLatLonCentred(grid0) ==
    Local(grid0, LAMBDA grid :
    IF Len(grid) < 4 THEN <<0, 0>>
    ELSE LET field1 == toUpper(grid[1])
             field2 == toUpper(grid[2])
             square1 == grid[3]
             square2 == grid[4]
             lon == ((field1 - 65) * 20 - 180) * AngUnit
                    + (square1 - 48) * 2 * AngUnit
                    + AngUnit
                    + (IF Len(grid) >= 6
                       THEN ((toLower(grid[5]) - 97) * 2 * AngUnit) \div 24
                       ELSE 0)
             lat == ((field2 - 65) * 10 - 90) * AngUnit
                    + (square2 - 48) * AngUnit
                    + AngUnit \div 2
                    + (IF Len(grid) >= 6
                       THEN ((toLower(grid[6]) - 97) * AngUnit) \div 24
                       ELSE 0)
         IN  <<lat, lon>>)

\* <<latitude, longitude>> in angle units
gridToLatLon(grid0) ==
    Local(grid0, LAMBDA grid :
    IF Len(grid) < 4 THEN <<0, 0>>
    ELSE LET field1 == toUpper(grid[1])
             field2 == toUpper(grid[2])
             square1 == grid[3]
             square2 == grid[4]
             lon == ((field1 - 65) * 20 - 180) * AngUnit
                    + (square1 - 48) * 2 * AngUnit
                    + (IF Len(grid) >= 6
                       THEN ((toLower(grid[5]) - 97) * 2 * AngUnit) \div 24
                       ELSE AngUnit)
             lat == ((field2 - 65) * 10 - 90) * AngUnit
                    + (square2 - 48) * AngUnit
                    + (IF Len(grid) >= 6
                       THEN ((toLower(grid[6]) - 97) * AngUnit) \div 24
                       ELSE AngUnit \div 2)
         IN  <<lat, lon>>)

\* calculateDistance with the first point's latitude for both cosines
calculateDistanceOneWay(grid1, grid2) ==
    Local(gridToLatLon(grid1), LAMBDA p1 :
    Local(gridToLatLon(grid2), LAMBDA p2 :
    Local(Sin((p2[1] - p1[1]) \div 2), LAMBDA sLat :
    Local(Sin((p2[2] - p1[2]) \div 2), LAMBDA sLon :
    Local(sLat * sLat
          + (((Cos(p1[1]) * Cos(p1[1])) \div (10 * TrigScale))
             * ((sLon * sLon) \div 1000)), LAMBDA a :
    Local(2 * AsinQ1(Sqrt(qBound(0, a, TrigScale * TrigScale))), LAMBDA c :
        (c * 111195) \div (AngUnit * 1000)))))))

\* great-circle distance in km (haversine, EARTH_RADIUS_KM = 6371):
\* 6371 * 2 * pi / 360 = 111.195 km to the degree of arc
calculateDistance(grid1, grid2) ==
    Local(gridToLatLon(grid1), LAMBDA p1 :
    Local(gridToLatLon(grid2), LAMBDA p2 :
    Local(Sin((p2[1] - p1[1]) \div 2), LAMBDA sLat :
    Local(Sin((p2[2] - p1[2]) \div 2), LAMBDA sLon :
    \* a, in TrigScale^2-ths
    Local(sLat * sLat
          + (((Cos(p1[1]) * Cos(p2[1])) \div (10 * TrigScale))
             * ((sLon * sLon) \div 1000)), LAMBDA a :
    Local(2 * AsinQ1(Sqrt(qBound(0, a, TrigScale * TrigScale))), LAMBDA c :
        (c * 111195) \div (AngUnit * 1000)))))))

\* solar zenith angle, in angle units
calculateSolarZenithAngle(lat0, lon, doy, h, m) ==
    Local(lat0, LAMBDA lat :
    Local((2344 * AngUnit * Sin((360 * AngUnit * (doy - 1 - 172)) \div 365))
          \div (100 * TrigScale), LAMBDA declination :
    LET hourAngle == ((h * 60 + m - 720) * 15 * AngUnit) \div 60 + lon
        cosZenith == (Sin(lat) * Sin(declination)) \div TrigScale
                     + (((Cos(lat) * Cos(declination)) \div TrigScale) * Cos(hourAngle))
                       \div TrigScale
    IN  Acos(qBound(-TrigScale, cosZenith, TrigScale))))

\* fraction (Scale-ths) of the 11 points of the straight lat/lon segment
\* that are in daylight
calculateDayNightPath(lat1, lon1, lat2, lon2, doy, h, m) ==
    LET numPoints == 10
        dayPoints ==
            Cardinality({i \in 0..numPoints :
                calculateSolarZenithAngle(lat1 + (i * (lat2 - lat1)) \div numPoints,
                                          lon1 + (i * (lon2 - lon1)) \div numPoints,
                                          doy, h, m) < 90 * AngUnit})
    IN  (dayPoints * Scale) \div (numPoints + 1)

\* --------------------------------------------------------------- MUF, LUF

\* calculateMUF with the bucket boundaries counted to the shorter bucket
calculateMUFInclusive(distance, dayFraction, season, sfi) ==
    LET baseMUF == IF distance <= 500 THEN 7000
                   ELSE IF distance <= 1500 THEN 14000
                   ELSE IF distance <= 3000 THEN 21000
                   ELSE 28000
        dayNightFactor == 700 + Mul(600, dayFraction)
        seasonFactor == CASE season = 0 -> 800
                          [] season = 1 -> 1100
                          [] season = 2 -> 1200
                          [] season = 3 -> 1000
                          [] OTHER -> 1000
        sfiFactor == 500 + (sfi * Scale) \div 200
    IN  Mul(Mul(Mul(baseMUF, dayNightFactor), seasonFactor), sfiFactor)

\* kHz
calculateMUF(distance, dayFraction, season, sfi) ==
    LET baseMUF == IF distance < 500 THEN 7000
                   ELSE IF distance < 1500 THEN 14000
                   ELSE IF distance < 3000 THEN 21000
                   ELSE 28000
        dayNightFactor == 700 + Mul(600, dayFraction)
        seasonFactor == CASE season = 0 -> 800
                          [] season = 1 -> 1100
                          [] season = 2 -> 1200
                          [] season = 3 -> 1000
                          [] OTHER -> 1000
        sfiFactor == 500 + (sfi * Scale) \div 200
    IN  Mul(Mul(Mul(baseMUF, dayNightFactor), seasonFactor), sfiFactor)

calculateLUF(distance, dayFraction, kIndex) ==
    LET baseLUF == IF distance < 500 THEN 1800
                   ELSE IF distance < 1500 THEN 3500
                   ELSE IF distance < 3000 THEN 7000
                   ELSE 10000
        dayNightFactor == 500 + Mul(800, dayFraction)
        kFactor == Scale + (kIndex * Scale) \div 10
    IN  Mul(Mul(baseLUF, dayNightFactor), kFactor)

\* ------------------------------------------------------------------ feeds

\* m_networkManager->get(request) for a feed: one more reply outstanding,
\* and a note of how many lockers of m_mutex were open at the call and of
\* how many signals the running call had emitted before it
Get(s, feed) ==
    [s EXCEPT !.inFlight[feed] = @ + 1,
              !.requests = Append(@, [feed |-> feed, mutexDepth |-> s.mutexDepth,
                                      emitted |-> Len(s.emitted)])]

fetchDXViewData(s) ==
    Local(Lock(s, "fetchDXViewData"), LAMBDA s1 : Unlock(Get(s1, "DXView")))

fetchSWPCData(s) ==
    Local(Lock(s, "fetchSWPCData"), LAMBDA s1 : Unlock(Get(s1, "SWPC")))

\* ---------------------------------------------------------------- refresh

\* the season of a month with the year's quarters for seasons
SeasonOfMonthQuarter(m) ==
    IF m >= 4 /\ m <= 6 THEN 1
    ELSE IF m >= 7 /\ m <= 9 THEN 2
    ELSE IF m >= 10 /\ m <= 12 THEN 3
    ELSE 0

SeasonOfMonth(m) ==
    IF m >= 3 /\ m <= 5 THEN 1
    ELSE IF m >= 6 /\ m <= 8 THEN 2
    ELSE IF m >= 9 /\ m <= 11 THEN 3
    ELSE 0

\* ----------------------------------------------------------------- getters

solarFluxIndex(s0) ==
    Local(Lock(s0, "solarFluxIndex"), LAMBDA s1 :
        [st |-> Unlock(s1), ret |-> s1.m_solarFluxIndex])

\* int kIndex() const
kIndex_const(s0) ==
    Local(Lock(s0, "kIndex"), LAMBDA s1 : [st |-> Unlock(s1), ret |-> s1.m_kIndex])

\* int season() const
season_const(s0) ==
    Local(Lock(s0, "season"), LAMBDA s1 : [st |-> Unlock(s1), ret |-> s1.m_season])

\* Server::onPropagationUpdated, the slot the host connects to
\* propagationUpdated: it reads the conditions for its message and again in
\* updateChannelLinks; it changes nothing in the simulation
onPropagationUpdated(s0) ==
    Local(solarFluxIndex(s0).st, LAMBDA s1 :
    Local(kIndex_const(s1).st, LAMBDA s2 :
    Local(season_const(s2).st, LAMBDA s3 :
    Local(solarFluxIndex(s3).st, LAMBDA s4 :
        kIndex_const(s4).st))))

\* the feeds are asked again only after more than 30 minutes
externalUpdateLate(s) == now - s.m_lastExternalUpdate > 30

\* m_lastExternalUpdate.secsTo(now) >= 30 * 60
externalUpdateDue(s) == now - s.m_lastExternalUpdate >= 30

\* updatePropagation with the signal emitted first and the work done after
updatePropagationEmitFirst(s0, rnd) ==
    Local(Emit(Lock(s0, "updatePropagation"), [signal |-> "propagationUpdated"]),
          LAMBDA s1 :
    Local(IF s1.connected THEN onPropagationUpdated(s1) ELSE s1, LAMBDA s1b :
    Local([s1b EXCEPT !.m_signalStrengths = clear(@)], LAMBDA s2 :
    Local(IF s2.m_autoTimeEnabled
          THEN [s2 EXCEPT !.m_season = SeasonOfMonth(Month)]
          ELSE s2, LAMBDA s3 :
    Unlock(IF s3.m_useExternalData
           THEN IF externalUpdateDue(s3)
                THEN Local(IF s3.m_useDXViewData THEN fetchDXViewData(s3) ELSE s3,
                           LAMBDA a :
                     Local(IF a.m_useSWPCData THEN fetchSWPCData(a) ELSE a,
                           LAMBDA b :
                         [b EXCEPT !.m_lastExternalUpdate = now]))
                ELSE s3
           ELSE IF rnd.gate
                THEN [s3 EXCEPT
                        !.m_solarFluxIndex = qBound(60, @ + rnd.sfiChange, 300),
                        !.m_kIndex = qBound(0, @ + rnd.kChange, 9)]
                ELSE s3)))))

\* updatePropagation with the random variation made in every refresh,
\* external data or not
updatePropagationPerturbing(s0, rnd) ==
    Local([Lock(s0, "updatePropagation") EXCEPT !.m_signalStrengths = clear(@)],
          LAMBDA s2 :
    Local(IF s2.m_autoTimeEnabled
          THEN [s2 EXCEPT !.m_season = SeasonOfMonth(Month)]
          ELSE s2, LAMBDA s3 :
    Local(IF s3.m_useExternalData /\ externalUpdateDue(s3)
          THEN Local(IF s3.m_useDXViewData THEN fetchDXViewData(s3) ELSE s3,
                     LAMBDA a :
               Local(IF a.m_useSWPCData THEN fetchSWPCData(a) ELSE a,
                     LAMBDA b :
                   [b EXCEPT !.m_lastExternalUpdate = now]))
          ELSE s3, LAMBDA s3b :
    Local(IF rnd.gate
          THEN [s3b EXCEPT
                  !.m_solarFluxIndex = qBound(60, @ + rnd.sfiChange, 300),
                  !.m_kIndex = qBound(0, @ + rnd.kChange, 9)]
          ELSE s3b, LAMBDA s4 :
    Local(Emit(s4, [signal |-> "propagationUpdated"]), LAMBDA s5 :
        Unlock(IF s5.connected THEN onPropagationUpdated(s5) ELSE s5))))))

updatePropagation(s0, rnd) ==
    Local([Lock(s0, "updatePropagation") EXCEPT !.m_signalStrengths = clear(@)],
          LAMBDA s2 :
    Local(IF s2.m_autoTimeEnabled
          THEN [s2 EXCEPT !.m_season = SeasonOfMonth(Month)]
          ELSE s2, LAMBDA s3 :
    Local(IF s3.m_useExternalData
          THEN IF externalUpdateDue(s3)
               THEN Local(IF s3.m_useDXViewData THEN fetchDXViewData(s3) ELSE s3,
                          LAMBDA a :
                    Local(IF a.m_useSWPCData THEN fetchSWPCData(a) ELSE a,
                          LAMBDA b :
                        [b EXCEPT !.m_lastExternalUpdate = now]))
               ELSE s3
          ELSE IF rnd.gate
               THEN [s3 EXCEPT
                       !.m_solarFluxIndex = qBound(60, @ + rnd.sfiChange, 300),
                       !.m_kIndex = qBound(0, @ + rnd.kChange, 9)]
               ELSE s3, LAMBDA s4 :
    Local(Emit(s4, [signal |-> "propagationUpdated"]), LAMBDA s5 :
        \* a direct connection: the slot runs inside the emit
        Unlock(IF s5.connected THEN onPropagationUpdated(s5) ELSE s5)))))

initialize(s0, rnd) ==
    Unlock(updatePropagation(
        [Lock(s0, "initialize") EXCEPT
            !.m_bandDefinitions = initializeBandDefinitions(@),
            !.m_bandChannels = InsertAll(@, BandChannelPairs),
            !.m_channelBands = InsertAll(@, ChannelBandPairs),
            !.m_updateTimer = TRUE],
        rnd))

\* ---------------------------------------------------------------- setters

setSolarFluxIndex(s0, sfi, rnd) ==
    Unlock(updatePropagation(
        [Lock(s0, "setSolarFluxIndex") EXCEPT
            !.m_solarFluxIndex = qBound(60, sfi, 300)],
        rnd))

\* setKIndex storing its argument as it comes
setKIndexUnclamped(s0, kIndex, rnd) ==
    Unlock(updatePropagation(
        [Lock(s0, "setKIndex") EXCEPT !.m_kIndex = kIndex],
        rnd))

setKIndex(s0, kIndex, rnd) ==
    Unlock(updatePropagation(
        [Lock(s0, "setKIndex") EXCEPT !.m_kIndex = qBound(0, kIndex, 9)],
        rnd))

setSeason(s0, season, rnd) ==
    Unlock(updatePropagation(
        [Lock(s0, "setSeason") EXCEPT !.m_season = qBound(0, season, 3)],
        rnd))

setAutoTimeEnabled(s0, enabled, rnd) ==
    Unlock(updatePropagation(
        [Lock(s0, "setAutoTimeEnabled") EXCEPT !.m_autoTimeEnabled = enabled],
        rnd))

setUseExternalData(s0, use, rnd) ==
    Unlock(updatePropagation(
        [Lock(s0, "setUseExternalData") EXCEPT !.m_useExternalData = use],
        rnd))

\* the DXView flag acting without a look at m_useExternalData
setUseDXViewDataAlone(s0, use) ==
    Local([Lock(s0, "setUseDXViewData") EXCEPT !.m_useDXViewData = use],
          LAMBDA s2 :
        Unlock(IF s2.m_useDXViewData THEN fetchDXViewData(s2) ELSE s2))

setUseDXViewData(s0, use) ==
    Local([Lock(s0, "setUseDXViewData") EXCEPT !.m_useDXViewData = use],
          LAMBDA s2 :
        Unlock(IF s2.m_useExternalData /\ s2.m_useDXViewData
               THEN fetchDXViewData(s2)
               ELSE s2))

setUseSWPCData(s0, use) ==
    Local([Lock(s0, "setUseSWPCData") EXCEPT !.m_useSWPCData = use],
          LAMBDA s2 :
        Unlock(IF s2.m_useExternalData /\ s2.m_useSWPCData
               THEN fetchSWPCData(s2)
               ELSE s2))

\* ------------------------------------------------------------- the host

\* ServerUser objects of the host: 0 is the null pointer; user u has session
\* id u, begins with the locator UserGrid[u] in qsMetadata["maidenheadgrid"]
\* and is in the channel with id UserChannel[u]
FN20 == <<70, 78, 50, 48>>
JO59 == <<74, 79, 53, 57>>
FN == <<70, 78>>
UserGrid == <<FN20, JO59, << >>, FN, JO59, JO59>>
UserChannel == <<6, 7, 6, 7, 1, 11>>
Users == DOMAIN UserGrid

\* no two users are ever found in one channel
sameChannelNever(user1, user2) == FALSE

\* user1->cChannel == user2->cChannel
sameChannel(user1, user2) == UserChannel[user1] = UserChannel[user2]

\* --------------------------------------------------------------- queries

Ret(s, v) == [st |-> s, ret |-> v]

\* the table with every distance bound taken inclusive
recommendBandInclusive(s0, distance0) ==
    Local(Lock(s0, "recommendBand"), LAMBDA s1 :
    Local(distance0, LAMBDA distance :
    LET isDaytime == Hour >= 6 /\ Hour < 18
        band == IF distance <= 500 THEN (IF isDaytime THEN 40 ELSE 80)
                ELSE IF distance <= 1500 THEN (IF isDaytime THEN 20 ELSE 40)
                ELSE IF distance <= 3000
                     THEN (IF isDaytime
                           THEN (IF s1.m_solarFluxIndex > 100 THEN 15 ELSE 20)
                           ELSE 20)
                ELSE IF isDaytime /\ s1.m_solarFluxIndex > 120 THEN 10
                ELSE IF isDaytime THEN 15
                ELSE 20
    IN  [st |-> Unlock(s1), ret |-> band]))

\* the 12 m band recommended where the code recommends 15 m
recommendBandTwelve(s0, distance0) ==
    Local(Lock(s0, "recommendBand"), LAMBDA s1 :
    Local(distance0, LAMBDA distance :
    LET isDaytime == Hour >= 6 /\ Hour < 18
        band == IF distance < 500 THEN (IF isDaytime THEN 40 ELSE 80)
                ELSE IF distance < 1500 THEN (IF isDaytime THEN 20 ELSE 40)
                ELSE IF distance < 3000
                     THEN (IF isDaytime
                           THEN (IF s1.m_solarFluxIndex > 100 THEN 12 ELSE 20)
                           ELSE 20)
                ELSE IF isDaytime /\ s1.m_solarFluxIndex > 120 THEN 10
                ELSE IF isDaytime THEN 12
                ELSE 20
    IN  Ret(Unlock(s1), band)))

recommendBand(s0, distance0) ==
    Local(Lock(s0, "recommendBand"), LAMBDA s1 :
    Local(distance0, LAMBDA distance :
    LET isDaytime == Hour >= 6 /\ Hour < 18
        band == IF distance < 500 THEN (IF isDaytime THEN 40 ELSE 80)
                ELSE IF distance < 1500 THEN (IF isDaytime THEN 20 ELSE 40)
                ELSE IF distance < 3000
                     THEN (IF isDaytime
                           THEN (IF s1.m_solarFluxIndex > 100 THEN 15 ELSE 20)
                           ELSE 20)
                ELSE IF isDaytime /\ s1.m_solarFluxIndex > 120 THEN 10
                ELSE IF isDaytime THEN 15
                ELSE 20
    IN  Ret(Unlock(s1), band)))

\* every band of the table taken for the band of channel 1
getBandChannelFirst(s0, band) ==
    Ret(s0, IF band \in DOMAIN s0.m_bandChannels THEN 1 ELSE 0)

getBandChannel(s0, band) ==
    Local(Lock(s0, "getBandChannel"), LAMBDA s1 :
        Ret(Unlock(s1),
            IF band \in DOMAIN s1.m_bandChannels THEN s1.m_bandChannels[band] ELSE 0))

\* every channel taken for the channel of the 20 m band
getChannelBandAlways(s0, channelId) == Ret(s0, 20)

getChannelBand(s0, channelId) ==
    Local(Lock(s0, "getChannelBand"), LAMBDA s1 :
        Ret(Unlock(s1),
            IF channelId \in DOMAIN s1.m_channelBands
            THEN s1.m_channelBands[channelId] ELSE 0))

\* the index of the first definition of the band in the list, 0 when none
FindBand(defs, band) ==
    IF \E i \in 1..Len(defs) : defs[i].band = band
    THEN CHOOSE i \in 1..Len(defs) :
            /\ defs[i].band = band
            /\ \A j \in 1..(i - 1) : defs[j].band # band
    ELSE 0

bandToFrequency(s, band) ==
    Local(FindBand(s.m_bandDefinitions, band), LAMBDA i :
        IF i # 0 THEN s.m_bandDefinitions[i].frequency
        ELSE CASE band = 160 -> 1900 [] band = 80 -> 3750 [] band = 60 -> 5350
               [] band = 40 -> 7150 [] band = 30 -> 10125 [] band = 20 -> 14175
               [] band = 17 -> 18118 [] band = 15 -> 21225 [] band = 10 -> 28850
               [] band = 6 -> 52000 [] OTHER -> 0)

frequencyToBand(frequency) ==
    IF frequency < 2000 THEN 160 ELSE IF frequency < 5000 THEN 80
    ELSE IF frequency < 6000 THEN 60 ELSE IF frequency < 9000 THEN 40
    ELSE IF frequency < 12000 THEN 30 ELSE IF frequency < 16000 THEN 20
    ELSE IF frequency < 20000 THEN 17 ELSE IF frequency < 25000 THEN 15
    ELSE IF frequency < 40000 THEN 10 ELSE IF frequency < 60000 THEN 6
    ELSE 0

\* calculateSignalStrength with the factor of the LUF never applied
calculateSignalStrengthMufOnly(s0, grid1, grid2, jitter, unset) ==
    Local(Lock(s0, "calculateSignalStrength"), LAMBDA s1 :
    Local(gridToLatLon(grid1), LAMBDA latLon1 :
    Local(gridToLatLon(grid2), LAMBDA latLon2 :
    Local(calculateDistance(grid1, grid2), LAMBDA distance :
    Local(calculateDayNightPath(latLon1[1], latLon1[2], latLon2[1], latLon2[2],
                                dayOfYear, Hour, Minute), LAMBDA dayFraction :
    Local(calculateMUF(distance, dayFraction, s1.m_season, s1.m_solarFluxIndex),
          LAMBDA muf :
    Local(recommendBand(s1, distance), LAMBDA rb :
    Local(rb.st, LAMBDA s2 :
    Local(rb.ret, LAMBDA bestBand :
    Local(bandToFrequency(s2, bestBand), LAMBDA bestFreq :
    Local(FindBand(s2.m_bandDefinitions, bestBand), LAMBDA i :
    Local(IF i # 0 THEN s2.m_bandDefinitions[i] ELSE unset, LAMBDA bestBandDef :
    Local(/\ distance >= bestBandDef.minDistance
          /\ distance <= bestBandDef.maxDistance
          /\ bestBandDef.maxDistance = bestBandDef.minDistance, LAMBDA nan :
    Local(IF distance < bestBandDef.minDistance THEN 300
          ELSE IF distance > bestBandDef.maxDistance THEN 100
          ELSE IF nan THEN 0
          ELSE Mul(bestBandDef.reliability,
                   Scale - ((distance - bestBandDef.minDistance) * Scale)
                           \div (bestBandDef.maxDistance - bestBandDef.minDistance)),
          LAMBDA base :
    LET afterMufLuf == IF bestFreq > muf THEN Mul(base, ExpNeg((bestFreq - muf) \div 5))
                       ELSE base
        dayNightFactor == Mul(dayFraction, bestBandDef.dayFactor)
                          + Mul(Scale - dayFraction, bestBandDef.nightFactor)
        afterDayNight == Mul(afterMufLuf, dayNightFactor)
        afterSfi == IF bestBand <= 40
                    THEN Mul(afterDayNight, 800 + (200 * s2.m_solarFluxIndex) \div 200)
                    ELSE Mul(afterDayNight, 500 + (500 * s2.m_solarFluxIndex) \div 200)
        afterK == Mul(afterSfi, Scale - (s2.m_kIndex * Scale) \div 20)
        signalStrength == Mul(afterK, jitter)
    IN  Ret(Unlock(s2), IF nan THEN 0 ELSE qBound(0, signalStrength, Scale)
    )))))))))))))))

\* jitter is the draw 0.8 + generateDouble() * 0.4; unset is what the local
\* bestBandDef holds when the loop over m_bandDefinitions assigns nothing
calculateSignalStrength(s0, grid1, grid2, jitter, unset) ==
    Local(Lock(s0, "calculateSignalStrength"), LAMBDA s1 :
    Local(gridToLatLon(grid1), LAMBDA latLon1 :
    Local(gridToLatLon(grid2), LAMBDA latLon2 :
    Local(calculateDistance(grid1, grid2), LAMBDA distance :
    Local(calculateDayNightPath(latLon1[1], latLon1[2], latLon2[1], latLon2[2],
                                dayOfYear, Hour, Minute), LAMBDA dayFraction :
    Local(calculateMUF(distance, dayFraction, s1.m_season, s1.m_solarFluxIndex),
          LAMBDA muf :
    Local(calculateLUF(distance, dayFraction, s1.m_kIndex), LAMBDA luf :
    Local(recommendBand(s1, distance), LAMBDA rb :
    Local(rb.st, LAMBDA s2 :
    Local(rb.ret, LAMBDA bestBand :
    Local(bandToFrequency(s2, bestBand), LAMBDA bestFreq :
    Local(FindBand(s2.m_bandDefinitions, bestBand), LAMBDA i :
    Local(IF i # 0 THEN s2.m_bandDefinitions[i] ELSE unset, LAMBDA bestBandDef :
    \* 0/0 when the range is empty: a NaN, which qBound turns into 0
    Local(/\ distance >= bestBandDef.minDistance
          /\ distance <= bestBandDef.maxDistance
          /\ bestBandDef.maxDistance = bestBandDef.minDistance, LAMBDA nan :
    Local(IF distance < bestBandDef.minDistance THEN 300
          ELSE IF distance > bestBandDef.maxDistance THEN 100
          ELSE IF nan THEN 0
          ELSE Mul(bestBandDef.reliability,
                   Scale - ((distance - bestBandDef.minDistance) * Scale)
                           \div (bestBandDef.maxDistance - bestBandDef.minDistance)),
          LAMBDA base :
    LET afterMufLuf == IF bestFreq > muf THEN Mul(base, ExpNeg((bestFreq - muf) \div 5))
                       ELSE IF bestFreq < luf THEN Mul(base, ExpNeg((luf - bestFreq) \div 2))
                       ELSE base
        dayNightFactor == Mul(dayFraction, bestBandDef.dayFactor)
                          + Mul(Scale - dayFraction, bestBandDef.nightFactor)
        afterDayNight == Mul(afterMufLuf, dayNightFactor)
        afterSfi == IF bestBand <= 40
                    THEN Mul(afterDayNight, 800 + (200 * s2.m_solarFluxIndex) \div 200)
                    ELSE Mul(afterDayNight, 500 + (500 * s2.m_solarFluxIndex) \div 200)
        afterK == Mul(afterSfi, Scale - (s2.m_kIndex * Scale) \div 20)
        signalStrength == Mul(afterK, jitter)
    IN  Ret(Unlock(s2), IF nan THEN 0 ELSE qBound(0, signalStrength, Scale)
    ))))))))))))))))

\* the 0 of a pair without locators stored like a computed strength
calculatePropagationCachingZero(s0, user1, user2, jitter, unset) ==
    Local(Lock(s0, "calculatePropagation"), LAMBDA s1 :
        IF user1 = 0 \/ user2 = 0 THEN Ret(Unlock(s1), 0)
        ELSE LET grid1 == qsMetadata[user1]
                 grid2 == qsMetadata[user2]
                 userPair == <<user1, user2>>
             IN  IF contains(s1.m_signalStrengths, userPair)
                 THEN Ret(Unlock(s1), s1.m_signalStrengths[userPair])
                 ELSE IF grid1 = << >> \/ grid2 = << >>
                 THEN Ret(Unlock([s1 EXCEPT
                                    !.m_signalStrengths = Insert(@, userPair, 0)]), 0)
                 ELSE Local(calculateSignalStrength(s1, grid1, grid2, jitter, unset),
                            LAMBDA r :
                          Ret(Unlock([r.st EXCEPT
                                        !.m_signalStrengths = Insert(@, userPair, r.ret)]),
                              r.ret)))

calculatePropagation(s0, user1, user2, jitter, unset) ==
    Local(Lock(s0, "calculatePropagation"), LAMBDA s1 :
        IF user1 = 0 \/ user2 = 0 THEN Ret(Unlock(s1), 0)
        ELSE LET grid1 == qsMetadata[user1]
                 grid2 == qsMetadata[user2]
                 userPair == <<user1, user2>>
             IN  IF grid1 = << >> \/ grid2 = << >> THEN Ret(Unlock(s1), 0)
                 ELSE IF contains(s1.m_signalStrengths, userPair)
                 THEN Ret(Unlock(s1), s1.m_signalStrengths[userPair])
                 ELSE Local(calculateSignalStrength(s1, grid1, grid2, jitter, unset),
                            LAMBDA r :
                          Ret(Unlock([r.st EXCEPT
                                        !.m_signalStrengths = Insert(@, userPair, r.ret)]),
                              r.ret)))

canCommunicate(s0, user1, user2, jitter, unset) ==
    Local(Lock(s0, "canCommunicate"), LAMBDA s1 :
        IF user1 = 0 \/ user2 = 0 THEN Ret(Unlock(s1), FALSE)
        ELSE IF sameChannel(user1, user2) THEN Ret(Unlock(s1), TRUE)
        ELSE Local(getChannelBand(s1, UserChannel[user1]), LAMBDA b1 :
             Local(getChannelBand(b1.st, UserChannel[user2]), LAMBDA b2 :
             Local(b2.st, LAMBDA s2 :
             LET band1 == b1.ret
                 band2 == b2.ret
             IN  IF band1 = 0 \/ band2 = 0 THEN Ret(Unlock(s2), FALSE)
                 ELSE IF band1 = band2
                 THEN Local(calculatePropagation(s2, user1, user2, jitter, unset),
                            LAMBDA p : Ret(Unlock(p.st), p.ret >= 500))
                 ELSE Local(bandToFrequency(s2, band1), LAMBDA freq1 :
                      Local(bandToFrequency(s2, band2), LAMBDA freq2 :
                      LET hi == IF freq1 > freq2 THEN freq1 ELSE freq2
                          lo == IF freq1 > freq2 THEN freq2 ELSE freq1
                      IN  \* qMax / qMin < 2.0f
                          IF hi < 2 * lo
                          THEN Local(calculatePropagation(s2, user1, user2, jitter, unset),
                                     LAMBDA p : Ret(Unlock(p.st), p.ret >= 700))
                          ELSE Ret(Unlock(s2), FALSE)))))))

\* Server::updateAudioRouting(u1, u2): what it logs, canTalk and the
\* strength; jitter is the draw of the canCommunicate call, jitter2 the draw
\* of the host's own calculateSignalStrength call; strength is the sequence
\* of the strengths it logs: none when a locator is empty, else one
updateAudioRouting(s0, u1, u2, jitter, jitter2, unset) ==
    Local(canCommunicate(s0, u1, u2, jitter, unset), LAMBDA c :
        LET grid1 == qsMetadata[u1]
            grid2 == qsMetadata[u2]
        IN  IF grid1 # << >> /\ grid2 # << >>
            THEN Local(calculateSignalStrength(c.st, grid1, grid2, jitter2, unset),
                       LAMBDA r :
                     Ret(r.st, [canTalk |-> c.ret, strength |-> <<r.ret>>]))
            ELSE Ret(c.st, [canTalk |-> c.ret, strength |-> << >>]))

\* ---------------------------------------------------------------- replies

\* A finished QNetworkReply: error is reply->error() != NoError; body says
\* what QJsonDocument::fromJson makes of the bytes ("garbage": a null
\* document, "array": a document that is no object, "object"); obj maps the
\* keys of the object to JSON values; a value is [t |-> "double", v |-> the
\* number in tenths], [t |-> "string"] or [t |-> "object", o |-> ...]; the
\* "bands" object is the sequence of its <<key, value>> in key order, a key
\* being the tuple of its characters' codes.
Reply(err, body, obj) == [error |-> err, body |-> body, obj |-> obj]
Double(v) == [t |-> "double", v |-> v]
String == [t |-> "string"]
Object(o) == [t |-> "object", o |-> o]

isDouble(obj, key) == key \in DOMAIN obj /\ obj[key].t = "double"
isObject(obj, key) == key \in DOMAIN obj /\ obj[key].t = "object"

\* qRound of a double given in tenths
qRound(v) == IF v >= 0 THEN (v + 5) \div 10 ELSE -((5 - v) \div 10)

\* bandStr.remove(QRegularExpression("[^0-9]"))
Digits(key) == SelectSeq(key, LAMBDA c : c >= 48 /\ c <= 57)

RECURSIVE DecimalValue(_)
DecimalValue(ds) ==
    IF ds = << >> THEN 0
    ELSE 10 * DecimalValue(SubSeq(ds, 1, Len(ds) - 1)) + (ds[Len(ds)] - 48)

\* the quality stored as it comes, the quality in tenths
qualityUnscaled(quality) == (quality * Scale) \div 10

\* quality / 10.0f, the quality in tenths
qualityToReliability(quality) == (quality * Scale) \div 100

\* the reply counted as failed with the cache dropped
replyFailedClearing(s, source) ==
    Emit([s EXCEPT !.m_signalStrengths = EmptyMap],
         [signal |-> "externalDataUpdated", source |-> source, success |-> FALSE])

\* emit externalDataUpdated(source, false); return;
replyFailed(s, source) ==
    Emit(s, [signal |-> "externalDataUpdated", source |-> source, success |-> FALSE])

\* the loop over bands.keys() with every band label counted as merged,
\* whether the registry holds the band or not
RECURSIVE MergeBandsAnyLabel(_, _, _)
MergeBandsAnyLabel(acc0, bands, i) ==
    Local(acc0, LAMBDA acc :
    IF i > Len(bands) THEN acc
    ELSE LET key == bands[i][1]
             value == bands[i][2]
             bandStr == Digits(key)
             ok == bandStr # << >>
             band == DecimalValue(bandStr)
             quality == ok /\ value.t = "object" /\ isDouble(value.o, "quality")
         IN  Local(IF quality THEN FindBand(acc.defs, band) ELSE 0, LAMBDA hit :
             MergeBandsAnyLabel(
                 IF hit # 0
                 THEN [defs |-> [acc.defs EXCEPT
                                   ![hit].reliability =
                                       qualityToReliability(value.o["quality"].v)],
                       updated |-> TRUE]
                 ELSE [acc EXCEPT !.updated = @ \/ quality],
                 bands, i + 1)))

\* the loop over bands.keys() with the quality of a band of the registry
\* stored for every band of the registry
RECURSIVE MergeBandsEveryBand(_, _, _)
MergeBandsEveryBand(acc0, bands, i) ==
    Local(acc0, LAMBDA acc :
    IF i > Len(bands) THEN acc
    ELSE LET key == bands[i][1]
             value == bands[i][2]
             bandStr == Digits(key)
             ok == bandStr # << >>
             band == DecimalValue(bandStr)
         IN  Local(IF ok /\ value.t = "object" /\ isDouble(value.o, "quality")
                   THEN FindBand(acc.defs, band)
                   ELSE 0, LAMBDA hit :
             MergeBandsEveryBand(
                 IF hit # 0
                 THEN [defs |-> [j \in DOMAIN acc.defs |->
                                   [acc.defs[j] EXCEPT
                                      !.reliability =
                                          qualityToReliability(value.o["quality"].v)]],
                       updated |-> TRUE]
                 ELSE acc,
                 bands, i + 1)))

\* the loop over bands.keys() of processDXViewResponse, from key number i on:
\* acc is [defs |-> m_bandDefinitions, updated |-> updated] so far
RECURSIVE MergeBands(_, _, _)
MergeBands(acc0, bands, i) ==
    Local(acc0, LAMBDA acc :
    IF i > Len(bands) THEN acc
    ELSE LET key == bands[i][1]
             value == bands[i][2]
             bandStr == Digits(key)
             ok == bandStr # << >>
             band == DecimalValue(bandStr)
         IN  Local(IF ok /\ value.t = "object" /\ isDouble(value.o, "quality")
                   THEN FindBand(acc.defs, band)
                   ELSE 0, LAMBDA hit :
             MergeBands(
                 IF hit # 0
                 THEN [defs |-> [acc.defs EXCEPT
                                   ![hit].reliability =
                                       qualityToReliability(value.o["quality"].v)],
                       updated |-> TRUE]
                 ELSE acc,
                 bands, i + 1)))

processDXViewResponse(s0, reply, rnd) ==
    IF reply.error THEN replyFailed(s0, "DXView")
    ELSE IF reply.body # "object" THEN replyFailed(s0, "DXView")
    ELSE LET obj == reply.obj
             hasSfi == isDouble(obj, "sfi")
             hasK == isDouble(obj, "kindex")
         IN  Local(Lock(s0, "processDXViewResponse"), LAMBDA s1 :
             Local(IF hasSfi
                   THEN [s1 EXCEPT !.m_solarFluxIndex = qBound(60, qRound(obj["sfi"].v), 300)]
                   ELSE s1, LAMBDA s2 :
             Local(IF hasK
                   THEN [s2 EXCEPT !.m_kIndex = qBound(0, qRound(obj["kindex"].v), 9)]
                   ELSE s2, LAMBDA s3 :
             Local(IF isObject(obj, "bands")
                   THEN MergeBands([defs |-> s3.m_bandDefinitions,
                                    updated |-> hasSfi \/ hasK],
                                   obj["bands"].o, 1)
                   ELSE [defs |-> s3.m_bandDefinitions, updated |-> hasSfi \/ hasK],
                   LAMBDA merged :
             Local(Emit([s3 EXCEPT !.m_bandDefinitions = merged.defs],
                        [signal |-> "externalDataUpdated", source |-> "DXView",
                         success |-> merged.updated]), LAMBDA s5 :
                 Unlock(IF merged.updated THEN updatePropagation(s5, rnd) ELSE s5))))))

processSWPCResponse(s0, reply, rnd) ==
    IF reply.error THEN replyFailed(s0, "SWPC")
    ELSE IF reply.body # "object" THEN replyFailed(s0, "SWPC")
    ELSE LET obj == reply.obj
             hasSfi == isDouble(obj, "sfi")
             hasK == isDouble(obj, "k_index")
             updated == hasSfi \/ hasK
         IN  Local(Lock(s0, "processSWPCResponse"), LAMBDA s1 :
             Local(IF hasSfi
                   THEN [s1 EXCEPT !.m_solarFluxIndex = qBound(60, qRound(obj["sfi"].v), 300)]
                   ELSE s1, LAMBDA s2 :
             Local(IF hasK
                   THEN [s2 EXCEPT !.m_kIndex = qBound(0, qRound(obj["k_index"].v), 9)]
                   ELSE s2, LAMBDA s3 :
             Local(Emit(s3, [signal |-> "externalDataUpdated", source |-> "SWPC",
                             success |-> updated]), LAMBDA s4 :
                 Unlock(IF updated THEN updatePropagation(s4, rnd) ELSE s4)))))

\* ------------------------------------------------------------------ calls

\* a call from outside starts with no signal emitted, no request sent and
\* no locker open
Enter(s) == [s EXCEPT !.emitted = << >>, !.requests = << >>, !.selfWait = "none"]

Call(op, arg, ret) ==
    [op |-> op, arg |-> arg, ret |-> ret, cached |-> DOMAIN hf.m_signalStrengths]

WithinBounds(s) ==
    /\ s.inFlight.DXView <= MaxInFlight
    /\ s.inFlight.SWPC <= MaxInFlight
    /\ Len(s.m_bandDefinitions) <= 10 * MaxInit

Done(s, call) ==
    /\ WithinBounds(s)
    /\ hf' = s
    /\ lastCall' = call
    /\ UNCHANGED env

\* In the actions D is the set of draws of QRandomGenerator a refresh may
\* make: [gate |-> generateDouble() < 0.1, sfiChange |-> bounded(-20, 21),
\* kChange |-> bounded(-2, 3)]; A is the set of arguments the caller passes.

HostInitialize(D) ==
    \E rnd \in D :
        \E s \in {initialize(Enter(hf), rnd)} :
            Done(s, Call("initialize", 0, 0))

\* initialize() called on an object that has been initialized before
HostInitializeAgain(D) ==
    /\ hf.m_bandDefinitions # << >>
    /\ Len(hf.m_bandDefinitions) < 10 * MaxReinit
    /\ \E rnd \in D :
        \E s \in {initialize(Enter(hf), rnd)} :
            /\ hf' = s
            /\ lastCall' = Call("initialize", 0, 0)
            /\ UNCHANGED env

\* m_updateTimer's timeout, or Server::updateHFBandPropagation
TimerTimeout(D) ==
    \E rnd \in D :
        \E s \in {updatePropagation(Enter(hf), rnd)} :
            Done(s, Call("updatePropagation", 0, 0))

HostSetSolarFluxIndex(A, D) ==
    \E sfi \in A, rnd \in D :
        \E s \in {setSolarFluxIndex(Enter(hf), sfi, rnd)} :
            Done(s, Call("setSolarFluxIndex", sfi, 0))

HostSetKIndex(A, D) ==
    \E k \in A, rnd \in D :
        \E s \in {setKIndex(Enter(hf), k, rnd)} :
            Done(s, Call("setKIndex", k, 0))

HostSetSeason(A, D) ==
    \E season \in A, rnd \in D :
        \E s \in {setSeason(Enter(hf), season, rnd)} :
            Done(s, Call("setSeason", season, 0))

HostSetAutoTimeEnabled(D) ==
    \E enabled \in BOOLEAN, rnd \in D :
        \E s \in {setAutoTimeEnabled(Enter(hf), enabled, rnd)} :
            Done(s, Call("setAutoTimeEnabled", enabled, 0))

HostSetUseExternalData(D) ==
    \E use \in BOOLEAN, rnd \in D :
        \E s \in {setUseExternalData(Enter(hf), use, rnd)} :
            Done(s, Call("setUseExternalData", use, 0))

HostSetUseDXViewData ==
    \E use \in BOOLEAN :
        \E s \in {setUseDXViewData(Enter(hf), use)} :
            Done(s, Call("setUseDXViewData", use, 0))

HostSetUseSWPCData ==
    \E use \in BOOLEAN :
        \E s \in {setUseSWPCData(Enter(hf), use)} :
            Done(s, Call("setUseSWPCData", use, 0))

\* P: pairs <<user1, user2>>; J: jitter draws; U: contents of an unset
\* BandDefinition
HostCalculatePropagation(P, J, U) ==
    \E p \in P, jitter \in J, unset \in U :
        \E r \in {calculatePropagation(Enter(hf), p[1], p[2], jitter, unset)} :
            Done(r.st, Call("calculatePropagation", p, r.ret))

HostCanCommunicate(P, J, U) ==
    \E p \in P, jitter \in J, unset \in U :
        \E r \in {canCommunicate(Enter(hf), p[1], p[2], jitter, unset)} :
            Done(r.st, Call("canCommunicate", p, r.ret))

HostCalculateSignalStrength(G, J, U) ==
    \E g \in G, jitter \in J, unset \in U :
        \E r \in {calculateSignalStrength(Enter(hf), g[1], g[2], jitter, unset)} :
            Done(r.st, Call("calculateSignalStrength", g, r.ret))

HostGetBandChannel(A) ==
    \E band \in A :
        \E r \in {getBandChannel(Enter(hf), band)} :
            Done(r.st, Call("getBandChannel", band, r.ret))

HostGetChannelBand(A) ==
    \E channelId \in A :
        \E r \in {getChannelBand(Enter(hf), channelId)} :
            Done(r.st, Call("getChannelBand", channelId, r.ret))

\* Server::updateHFBandPropagation's loop over the authenticated users
HostUpdateAudioRouting(P, J, U) ==
    \E p \in P, jitter \in J, jitter2 \in J, unset \in U :
        \E r \in {updateAudioRouting(Enter(hf), p[1], p[2], jitter, jitter2, unset)} :
            Done(r.st, Call("updateAudioRouting", p, r.ret))

HostRecommendBand(A) ==
    \E distance \in A :
        \E r \in {recommendBand(Enter(hf), distance)} :
            Done(r.st, Call("recommendBand", distance, r.ret))

\* the finished() signal of an outstanding reply, R the replies it may be
ReplyFinishedDXView(R, D) ==
    /\ hf.inFlight.DXView > 0
    /\ \E reply \in R, rnd \in D :
        \E s \in {processDXViewResponse(
                     [Enter(hf) EXCEPT !.inFlight.DXView = @ - 1], reply, rnd)} :
            Done(s, Call("processDXViewResponse", reply, 0))

ReplyFinishedSWPC(R, D) ==
    /\ hf.inFlight.SWPC > 0
    /\ \E reply \in R, rnd \in D :
        \E s \in {processSWPCResponse(
                     [Enter(hf) EXCEPT !.inFlight.SWPC = @ - 1], reply, rnd)} :
            Done(s, Call("processSWPCResponse", reply, 0))

\* A caller of fetchDXViewData() or fetchSWPCData() run while the feed has as
\* many unresolved requests as the actions above follow: neither fetch, nor
\* updatePropagation(), nor a setter looks at earlier replies, so the
\* request is sent; it is followed here for one request beyond MaxInFlight.
HostFetchAgain(D) ==
    \E rnd \in D :
        \E c \in {[st |-> setUseDXViewData(Enter(hf), TRUE),
                    call |-> Call("setUseDXViewData", TRUE, 0)],
                   [st |-> setUseSWPCData(Enter(hf), TRUE),
                    call |-> Call("setUseSWPCData", TRUE, 0)],
                   [st |-> updatePropagation(Enter(hf), rnd),
                    call |-> Call("updatePropagation", 0, 0)]} :
            /\ \E feed \in DOMAIN hf.inFlight :
                   /\ hf.inFlight[feed] = MaxInFlight
                   /\ c.st.inFlight[feed] = MaxInFlight + 1
            /\ \A feed \in DOMAIN hf.inFlight : c.st.inFlight[feed] <= MaxInFlight + 1
            /\ hf' = c.st
            /\ lastCall' = c.call
            /\ UNCHANGED env

\* Server::initializeHFBandSimulation connects its slots to the signals
HostConnect ==
    /\ ~hf.connected
    /\ \E s \in {[Enter(hf) EXCEPT !.connected = TRUE]} :
           Done(s, Call("connect", 0, 0))

\* the host stores a locator in the metadata of a user that had none
\* (G: the locators users send)
UserSetsLocator(G) ==
    \E u \in Users, grid \in G :
        /\ qsMetadata[u] = << >>
        /\ qsMetadata' = [qsMetadata EXCEPT ![u] = grid]
        /\ lastCall' = Call("setMetadata", u, 0)
        /\ UNCHANGED <<hf, now, dayOfYear, hour>>

\* the wall clock moves on
AdvanceClock ==
    /\ now + ClockStep <= MaxNow
    /\ now' = now + ClockStep
    /\ lastCall' = Call("clock", 0, 0)
    /\ UNCHANGED <<hf, dayOfYear, hour, qsMetadata>>

Init ==
    /\ now = 0
    /\ qsMetadata = UserGrid
    /\ dayOfYear \in Days
    /\ hour \in Hours
    /\ hf = Constructed
    /\ lastCall = [op |-> "HFBandSimulation", arg |-> 0, ret |-> 0, cached |-> {}]

\* ----------------------------------------------------------------- inputs

NoChange == {[gate |-> FALSE, sfiChange |-> 0, kChange |-> 0]}

Draws == NoChange \cup {[gate |-> TRUE, sfiChange |-> -20, kChange |-> 2]}

SfiArgs == {30, 500}
KIndexArgs == {-1, 12}
SeasonArgs == {-2, 1, 9}

QueryPairs == {<<1, 2>>, <<2, 1>>, <<1, 3>>, <<0, 1>>}
Jitters == {800, 1199}
UnsetDefs == {Band(0, 0, 0, 0, 0, 0, 0), Band(20, 14175, 0, 10000, 2000, 1300, 700)}

Label20m == <<50, 48, 109>>
Label99m == <<57, 57, 109>>

FailedReplies ==
    {Reply(TRUE, "garbage", EmptyMap),
     Reply(FALSE, "garbage", EmptyMap),
     Reply(FALSE, "array", EmptyMap)}

DXViewReplies ==
    FailedReplies \cup
    {Reply(FALSE, "object", EmptyMap),
     Reply(FALSE, "object", [sfi |-> Double(3004), kindex |-> String]),
     Reply(FALSE, "object",
           [bands |-> Object(<< <<Label20m, Object([quality |-> Double(80)])>> >>)]),
     Reply(FALSE, "object",
           [bands |-> Object(<< <<Label99m, Object([quality |-> Double(80)])>> >>)])}

ConditionReplies ==
    {Reply(TRUE, "garbage", EmptyMap),
     Reply(FALSE, "object", [sfi |-> Double(3004), kindex |-> Double(-12)])}

SWPCReplies ==
    FailedReplies \cup
    {Reply(FALSE, "object", [sfi |-> String]),
     Reply(FALSE, "object", [k_index |-> Double(-12)])}

Label10m == <<49, 48, 109>>
Label15m == <<49, 53, 109>>

\* replies whose quality values lie outside 0..10:
\* {"bands": {"10m": {"quality": 15}, "15m": {"quality": -3}}} and its mirror
QualityReplies ==
    {Reply(FALSE, "object",
           [bands |-> Object(<< <<Label10m, Object([quality |-> Double(150)])>>,
                                <<Label15m, Object([quality |-> Double(-30)])>> >>)]),
     Reply(FALSE, "object",
           [bands |-> Object(<< <<Label10m, Object([quality |-> Double(-30)])>>,
                                <<Label15m, Object([quality |-> Double(150)])>> >>)])}

\* pairs of users: in one channel (with and without a usable locator), on
\* bands within an octave, on bands further apart, with a channel that has
\* no band, with a locator of two characters, with no locator, with a null
\* pointer
CommPairs ==
    {<<1, 3>>, <<2, 4>>, <<1, 2>>, <<1, 5>>, <<1, 6>>, <<4, 1>>, <<3, 2>>, <<0, 1>>}

\* hours, solar flux indices and distances on both sides of every threshold
\* of recommendBand
BandHours == {0, 5, 6, 12, 17, 18, 23}
BandSfiArgs == {60, 100, 101, 120, 121, 300}
BandDistances == {0, 499, 500, 1499, 1500, 2999, 3000, 20000}

\* ---------------------------------------------------------- specifications

\* the conditions: setters, refreshes with their perturbation, feed merges
Next ==
    \/ HostInitialize(NoChange)
    \/ TimerTimeout(Draws)
    \/ HostSetSolarFluxIndex(SfiArgs, Draws)
    \/ HostSetKIndex(KIndexArgs, Draws)
    \/ HostSetSeason(SeasonArgs, NoChange)
    \/ HostSetAutoTimeEnabled(NoChange)
    \/ HostSetUseExternalData(NoChange)
    \/ HostSetUseDXViewData
    \/ ReplyFinishedDXView(ConditionReplies, NoChange)

Spec == Init /\ [][Next]_vars

\* the cache: queries between refreshes
NextCache ==
    \/ HostInitialize(NoChange)
    \/ TimerTimeout(NoChange)
    \/ HostSetSolarFluxIndex({500}, NoChange)
    \/ HostCalculatePropagation(QueryPairs, Jitters, UnsetDefs)
    \/ HostCanCommunicate(QueryPairs, Jitters, UnsetDefs)
    \/ AdvanceClock

SpecCache == Init /\ [][NextCache]_vars

\* the feeds: requests, replies and the queries they invalidate
NextFeeds ==
    \/ HostInitialize(NoChange)
    \/ TimerTimeout(NoChange)
    \/ HostSetUseExternalData(NoChange)
    \/ HostSetUseDXViewData
    \/ HostSetUseSWPCData
    \/ HostCalculatePropagation({<<1, 2>>}, {800}, {Band(0, 0, 0, 0, 0, 0, 0)})
    \/ ReplyFinishedDXView(DXViewReplies, NoChange)
    \/ ReplyFinishedSWPC(SWPCReplies, NoChange)

SpecFeeds == Init /\ [][NextFeeds]_vars

\* the strengths: band qualities from the feed, conditions, the pure query
NextStrength ==
    \/ HostInitialize(NoChange)
    \/ HostSetSolarFluxIndex(SfiArgs, NoChange)
    \/ HostSetKIndex({-1}, NoChange)
    \/ HostSetUseExternalData(NoChange)
    \/ HostSetUseDXViewData
    \/ ReplyFinishedDXView(QualityReplies, NoChange)
    \/ HostCalculateSignalStrength({<<FN20, JO59>>}, Jitters, UnsetDefs)
    \/ HostCalculatePropagation({<<1, 2>>}, {1199}, {Band(0, 0, 0, 0, 0, 0, 0)})

SpecStrength == Init /\ [][NextStrength]_vars

\* the routing decision: who may talk to whom
NextCommunicate ==
    \/ HostInitialize(NoChange)
    \/ TimerTimeout(NoChange)
    \/ HostUpdateAudioRouting({<<1, 2>>, <<1, 3>>, <<1, 5>>}, Jitters,
                              {Band(0, 0, 0, 0, 0, 0, 0)})
    \/ HostCanCommunicate(CommPairs, Jitters, {Band(0, 0, 0, 0, 0, 0, 0)})
    \/ HostCalculatePropagation({<<4, 1>>, <<3, 2>>, <<1, 6>>}, {1199},
                                {Band(0, 0, 0, 0, 0, 0, 0)})

SpecCommunicate == Init /\ [][NextCommunicate]_vars

\* the refreshes: the two timers, the clock, the feed settings and replies
NextRefresh ==
    \/ TimerTimeout(Draws)
    \/ HostSetUseExternalData(NoChange)
    \/ HostSetUseDXViewData
    \/ HostSetUseSWPCData
    \/ ReplyFinishedDXView(FailedReplies, NoChange)
    \/ ReplyFinishedSWPC(FailedReplies, NoChange)
    \/ AdvanceClock

SpecRefresh == Init /\ [][NextRefresh]_vars

\* the requests: the timer goes on firing; whether and when a reply
\* finishes is up to the remote end, so nothing obliges ReplyFinished to occur
NextFetch ==
    \/ TimerTimeout(NoChange)
    \/ HostSetUseExternalData(NoChange)
    \/ HostSetUseDXViewData
    \/ HostSetUseSWPCData
    \/ ReplyFinishedDXView(FailedReplies, NoChange)
    \/ ReplyFinishedSWPC(FailedReplies, NoChange)

SpecFetch == Init /\ [][NextFetch]_vars /\ WF_vars(TimerTimeout(NoChange))

\* the host: its connection to the signals and what its slot asks for
NextHost ==
    \/ HostInitialize(NoChange)
    \/ HostConnect
    \/ TimerTimeout(Draws)
    \/ HostSetSolarFluxIndex(SfiArgs, NoChange)
    \/ HostSetKIndex(KIndexArgs, NoChange)
    \/ HostSetSeason(SeasonArgs, NoChange)
    \/ HostSetAutoTimeEnabled(NoChange)

SpecHost == Init /\ [][NextHost]_vars

\* late replies: the flags change and refreshes run while a reply is out
NextLate ==
    \/ TimerTimeout(NoChange)
    \/ HostSetUseExternalData(NoChange)
    \/ HostSetUseDXViewData
    \/ HostSetUseSWPCData
    \/ HostCalculatePropagation({<<1, 2>>}, {800}, {Band(0, 0, 0, 0, 0, 0, 0)})
    \/ ReplyFinishedDXView(ConditionReplies, Draws)
    \/ ReplyFinishedSWPC(SWPCReplies, Draws)

SpecLate == Init /\ [][NextLate]_vars

\* the locators: queries of pairs before and after a user sends a locator
NextMetadata ==
    \/ HostInitialize(NoChange)
    \/ TimerTimeout(NoChange)
    \/ HostSetSolarFluxIndex({500}, NoChange)
    \/ HostCalculatePropagation({<<1, 2>>, <<1, 3>>, <<3, 1>>, <<0, 1>>}, Jitters,
                                {Band(0, 0, 0, 0, 0, 0, 0)})
    \/ UserSetsLocator({JO59})

SpecMetadata == Init /\ [][NextMetadata]_vars

\* the requests of a feed, one after another before any reply
NextDispatch ==
    \/ TimerTimeout(NoChange)
    \/ HostSetUseExternalData(NoChange)
    \/ HostSetUseDXViewData
    \/ HostSetUseSWPCData
    \/ ReplyFinishedDXView(FailedReplies, NoChange)
    \/ ReplyFinishedSWPC(FailedReplies, NoChange)
    \/ AdvanceClock
    \/ HostFetchAgain(NoChange)

SpecDispatch == Init /\ [][NextDispatch]_vars

\* the registry: initialize(), once and again, and the band qualities merged
NextRegistry ==
    \/ HostInitialize(NoChange)
    \/ HostInitializeAgain(NoChange)
    \/ TimerTimeout(NoChange)
    \/ HostSetUseExternalData(NoChange)
    \/ HostSetUseDXViewData
    \/ ReplyFinishedDXView(DXViewReplies \cup QualityReplies, NoChange)
    \/ HostGetBandChannel({160, 80, 60, 40, 30, 20, 17, 15, 10, 6, 0, 1, 12, 161})
    \/ HostGetChannelBand(-1..11 \cup {160})

SpecRegistry == Init /\ [][NextRegistry]_vars

\* the band recommendation at the hours of a day
InitBand ==
    /\ now = 0
    /\ qsMetadata = UserGrid
    /\ dayOfYear = 15
    /\ hour \in BandHours
    /\ hf = Constructed
    /\ lastCall = [op |-> "HFBandSimulation", arg |-> 0, ret |-> 0, cached |-> {}]

NextBand ==
    \/ HostInitialize(NoChange)
    \/ HostSetSolarFluxIndex(BandSfiArgs, NoChange)
    \/ HostRecommendBand(BandDistances)
    \/ HostCalculateSignalStrength(
           {<<FN20, grid>> : grid \in {<<70, 78, 51, 49>>, <<69, 78, 53, 48>>,
                                       <<68, 78, 55, 48>>, JO59}},
           {800}, UnsetDefs)

SpecBand == InitBand /\ [][NextBand]_vars

\* the usable frequencies of a path: the distance (km), the day fraction
\* (Scale-ths), the season, the solar flux index and the K index of a call
FrequencyInputs ==
    {<<d, f, s, i, k>> : d \in BandDistances, f \in {0, 545, 625, 1000},
                         s \in 0..3, i \in {60, 200, 300}, k \in {0, 5, 9}}

ApplyCalculateMUF ==
    /\ lastCall' = [lastCall EXCEPT
                      !.op = "calculateMUF",
                      !.ret = calculateMUF(lastCall.arg[1], lastCall.arg[2],
                                           lastCall.arg[3], lastCall.arg[4])]
    /\ UNCHANGED <<hf, env>>

ApplyCalculateLUF ==
    /\ lastCall' = [lastCall EXCEPT
                      !.op = "calculateLUF",
                      !.ret = calculateLUF(lastCall.arg[1], lastCall.arg[2],
                                           lastCall.arg[5])]
    /\ UNCHANGED <<hf, env>>

InitFrequency ==
    /\ now = 0
    /\ qsMetadata = UserGrid
    /\ dayOfYear = 15
    /\ hour = 12
    /\ hf = Constructed
    /\ \E a \in FrequencyInputs :
           lastCall = [op |-> "HFBandSimulation", arg |-> a, ret |-> 0, cached |-> {}]

NextFrequency ==
    \/ ApplyCalculateMUF
    \/ ApplyCalculateLUF

SpecFrequency == InitFrequency /\ [][NextFrequency]_vars

\* the locators of a call: none, too short, squares in either case of
\* letters, five characters, sub-squares in either case of letters
Locators ==
    {<< >>, FN, <<70, 78, 50>>, FN20, <<102, 110, 50, 48>>,
     <<70, 78, 50, 48, 118>>, <<70, 78, 50, 48, 118, 114>>,
     <<70, 78, 50, 48, 86, 82>>, <<70, 78, 50, 48, 97, 97>>,
     JO59, <<74, 79, 53, 57, 106, 119>>, <<65, 65, 48, 48>>,
     <<82, 82, 57, 57>>, <<82, 82, 57, 57, 120, 120>>}

ApplyGridToLatLon ==
    /\ lastCall' = [lastCall EXCEPT !.op = "gridToLatLon",
                                    !.ret = gridToLatLon(lastCall.arg[1])]
    /\ UNCHANGED <<hf, env>>

ApplyCalculateDistance ==
    /\ lastCall' = [lastCall EXCEPT
                      !.op = "calculateDistance",
                      !.ret = calculateDistance(lastCall.arg[1], lastCall.arg[2])]
    /\ UNCHANGED <<hf, env>>

InitLocator ==
    /\ now = 0
    /\ qsMetadata = UserGrid
    /\ dayOfYear = 15
    /\ hour = 12
    /\ hf = Constructed
    /\ \E a \in Locators \X Locators :
           lastCall = [op |-> "HFBandSimulation", arg |-> a, ret |-> 0, cached |-> {}]

NextLocator ==
    \/ ApplyGridToLatLon
    \/ ApplyCalculateDistance

SpecLocator == InitLocator /\ [][NextLocator]_vars

\* the first and the last day of each month of the year
MonthDays ==
    {1, 31, 32, 59, 60, 90, 91, 120, 121, 151, 152, 181,
     182, 212, 213, 243, 244, 273, 274, 304, 305, 334, 335, 365}

\* the refreshes of a day of any month
InitSeason ==
    /\ now = 0
    /\ qsMetadata = UserGrid
    /\ dayOfYear \in MonthDays
    /\ hour = 12
    /\ hf = Constructed
    /\ lastCall = [op |-> "HFBandSimulation", arg |-> 0, ret |-> 0, cached |-> {}]

NextSeason ==
    \/ HostConnect
    \/ TimerTimeout(NoChange)
    \/ HostSetSeason(SeasonArgs, NoChange)
    \/ HostSetAutoTimeEnabled(NoChange)

SpecSeason == InitSeason /\ [][NextSeason]_vars

\* a path in daylight at noon (AA00 to QF56) and one in the dark (RO59 to
\* AO59), under a quiet and a disturbed field
PenaltyGrids ==
    {<<<<65, 65, 48, 48>>, <<81, 70, 53, 54>>>>,
     <<<<82, 79, 53, 57>>, <<65, 79, 53, 57>>>>}

NextPenalty ==
    \/ HostInitialize(NoChange)
    \/ HostSetSolarFluxIndex(SfiArgs, NoChange)
    \/ HostSetKIndex({5, 12}, NoChange)
    \/ HostCalculateSignalStrength(PenaltyGrids, Jitters, {Band(0, 0, 0, 0, 0, 0, 0)})

SpecPenalty == Init /\ [][NextPenalty]_vars

\* ------------------------------------------------------------- properties

\* properties of Spec

\* C1: no public call asks for m_mutex while the calling thread already holds
\* it, so every public call started with the mutex free returns.
C1_NoPublicCallAwaitsOwnLock ==
    LET PublicCalls ==
            {"initialize", "setSolarFluxIndex", "setKIndex", "setSeason",
             "setAutoTimeEnabled", "setUseExternalData", "setUseDXViewData",
             "setUseSWPCData", "calculatePropagation", "canCommunicate",
             "calculateSignalStrength", "recommendBand"}
    IN  lastCall.op \in PublicCalls => hf.selfWait = "none"

\* C3: in every reachable state the solar flux index is in 60..300, the K
\* index in 0..9 and the season in 0..3.
C3_ConditionsInRange ==
    /\ hf.m_solarFluxIndex \in 60..300
    /\ hf.m_kIndex \in 0..9
    /\ hf.m_season \in 0..3

\* a merge of sfi 300.4 and kindex -1.2 has stored the clamped 300 and 0, in
\* a summer month with the season taken from the calendar
C3_Witness ==
    /\ lastCall.op = "processDXViewResponse"
    /\ ~lastCall.arg.error
    /\ hf.m_solarFluxIndex = 300
    /\ hf.m_kIndex = 0
    /\ hf.m_season = 2

\* C4: when setSolarFluxIndex(v) has returned the stored index is
\* clamp(v, 60, 300), and when setKIndex(v) has returned the stored index is
\* clamp(v, 0, 9).
C4_SetterStoresClamped ==
    /\ lastCall.op = "setSolarFluxIndex"
           => hf.m_solarFluxIndex = qBound(60, lastCall.arg, 300)
    /\ lastCall.op = "setKIndex"
           => hf.m_kIndex = qBound(0, lastCall.arg, 9)

\* C5: when setSeason(s) has returned the stored season is clamp(s, 0, 3),
\* whatever m_autoTimeEnabled and the month are.
C5_SetSeasonStoresClamped ==
    lastCall.op = "setSeason" => hf.m_season = qBound(0, lastCall.arg, 3)

\* properties of SpecCache

\* the calls that end with a refresh
RefreshCalls ==
    {"updatePropagation", "initialize", "setSolarFluxIndex", "setKIndex",
     "setSeason", "setAutoTimeEnabled", "setUseExternalData"}

\* a pair of users calculatePropagation looks up: neither is null and both
\* have a locator
Queryable(p) ==
    /\ p[1] # 0 /\ p[2] # 0
    /\ qsMetadata[p[1]] # << >> /\ qsMetadata[p[2]] # << >>

\* the strengths a computation for the pair p may give in the state s
FreshStrengths(s, p) ==
    {calculateSignalStrength(s, qsMetadata[p[1]], qsMetadata[p[2]], j, u).ret :
        j \in Jitters, u \in UnsetDefs}

\* C2: when a refresh has completed the cache is empty, and the next
\* calculatePropagation of a pair computes its strength anew and stores it.
C2_RefreshEmptiesCache ==
    [][/\ lastCall'.op \in RefreshCalls => hf'.m_signalStrengths = EmptyMap
       /\ (/\ lastCall.op \in RefreshCalls
           /\ lastCall'.op = "calculatePropagation"
           /\ Queryable(lastCall'.arg))
          => /\ lastCall'.ret \in FreshStrengths(hf, lastCall'.arg)
             /\ hf'.m_signalStrengths =
                    Insert(EmptyMap, lastCall'.arg, lastCall'.ret)]_vars

\* a refresh has run on a cache that held entries
C2_Witness ==
    /\ lastCall.op = "updatePropagation"
    /\ hf.m_bandDefinitions # << >>
    /\ lastCall.cached # {}
    /\ hf.m_signalStrengths = EmptyMap

\* C6: the cache never holds two entries for one unordered pair of users.
C6_OneEntryPerUnorderedPair ==
    \A p \in DOMAIN hf.m_signalStrengths :
        p[1] # p[2] => <<p[2], p[1]>> \notin DOMAIN hf.m_signalStrengths

\* C7: between refreshes an entry of the cache keeps its value, and a
\* calculatePropagation of a pair that has an entry returns that entry.
C7_EntriesNeverUpdatedInPlace ==
    [][/\ lastCall'.op \notin RefreshCalls
          => \A p \in DOMAIN hf.m_signalStrengths :
                /\ p \in DOMAIN hf'.m_signalStrengths
                /\ hf'.m_signalStrengths[p] = hf.m_signalStrengths[p]
       /\ (/\ lastCall'.op = "calculatePropagation"
           /\ lastCall'.arg \in DOMAIN hf.m_signalStrengths)
          => lastCall'.ret = hf.m_signalStrengths[lastCall'.arg]]_vars

\* a calculatePropagation has found the pair's entry and returned it, where a
\* fresh computation could have given another value
C7_Witness ==
    /\ lastCall.op = "calculatePropagation"
    /\ lastCall.arg \in lastCall.cached
    /\ lastCall.ret = hf.m_signalStrengths[lastCall.arg]
    /\ FreshStrengths(hf, lastCall.arg) \ {lastCall.ret} # {}

\* properties of SpecFeeds

\* the handler of a feed's replies
ProcessCall == [DXView |-> "processDXViewResponse", SWPC |-> "processSWPCResponse"]

\* C8: a reply that is a transport error or carries no JSON object emits
\* externalDataUpdated(feed, false) and nothing else, and leaves every member
\* of the object as it was: conditions, band definitions, cache, and what
\* belongs to the other feed.
C8_FailedReplyLeavesStateUntouched ==
    [][\A feed \in DOMAIN ProcessCall :
          (lastCall'.op = ProcessCall[feed] /\ lastCall'.arg \in FailedReplies)
          => hf' = [hf EXCEPT
                      !.emitted = << [signal |-> "externalDataUpdated",
                                      source |-> feed, success |-> FALSE] >>,
                      !.inFlight[feed] = @ - 1,
                      !.requests = << >>,
                      !.selfWait = "none"]]_vars

\* a failed SWPC reply has been handled while the cache held an entry and
\* after a DXView merge had stored a solar flux index of 300
C8_Witness ==
    /\ lastCall.op = "processSWPCResponse"
    /\ lastCall.arg \in FailedReplies
    /\ hf.m_signalStrengths # EmptyMap
    /\ hf.m_solarFluxIndex = 300
    /\ hf.emitted = << [signal |-> "externalDataUpdated",
                        source |-> "SWPC", success |-> FALSE] >>

\* the signals of the last call
Emitted(sig) == \E i \in 1..Len(hf.emitted) : hf.emitted[i].signal = sig

\* C9: when a DXView reply carrying bands.<NNm>.quality = q has been merged
\* and the band NN is in the registry, that band's reliability is q / 10, the
\* cache is empty and propagationUpdated has been emitted.
C9_BandQualityMerge ==
    (/\ lastCall.op = "processDXViewResponse"
     /\ ~lastCall.arg.error
     /\ lastCall.arg.body = "object"
     /\ isObject(lastCall.arg.obj, "bands"))
    => \A i \in 1..Len(lastCall.arg.obj["bands"].o) :
          LET key == lastCall.arg.obj["bands"].o[i][1]
              value == lastCall.arg.obj["bands"].o[i][2]
              n == FindBand(hf.m_bandDefinitions, DecimalValue(Digits(key)))
          IN  (/\ Digits(key) # << >>
               /\ value.t = "object"
               /\ isDouble(value.o, "quality")
               /\ n # 0)
              => /\ hf.m_bandDefinitions[n].reliability * 100
                        = value.o["quality"].v * Scale
                 /\ hf.m_signalStrengths = EmptyMap
                 /\ Emitted("propagationUpdated")

\* the reply {"bands": {"20m": {"quality": 8}}} has been merged into an
\* initialized registry while the cache held an entry
C9_Witness ==
    /\ lastCall.op = "processDXViewResponse"
    /\ isObject(lastCall.arg.obj, "bands")
    /\ lastCall.arg.obj["bands"].o[1][1] = Label20m
    /\ lastCall.cached # {}
    /\ FindBand(hf.m_bandDefinitions, 20) # 0
    /\ hf.m_bandDefinitions[FindBand(hf.m_bandDefinitions, 20)].reliability = 800
    /\ hf.m_signalStrengths = EmptyMap

\* C10: a reply of either feed whose merge has succeeded
\* (externalDataUpdated(feed, true)) is followed by mufChanged.
C10_MergeEmitsMufChanged ==
    (/\ lastCall.op \in {ProcessCall[feed] : feed \in DOMAIN ProcessCall}
     /\ \E i \in 1..Len(hf.emitted) :
            /\ hf.emitted[i].signal = "externalDataUpdated"
            /\ hf.emitted[i].success)
    => Emitted("mufChanged")

\* properties of SpecStrength

\* C11: the reliability of every band definition lies in [0, 1], whatever
\* quality values the merged band-quality replies carried.
C11_ReliabilityInUnitRange ==
    \A i \in DOMAIN hf.m_bandDefinitions :
        hf.m_bandDefinitions[i].reliability \in 0..Scale

\* C12: whatever the conditions, the locators, the jitter draw and the
\* reliabilities the feed has merged, calculateSignalStrength returns a
\* value in [0, 1], and so is every value the cache holds.
C12_StrengthInUnitRange ==
    /\ lastCall.op \in {"calculateSignalStrength", "calculatePropagation"}
       => lastCall.ret \in 0..Scale
    /\ \A p \in DOMAIN hf.m_signalStrengths : hf.m_signalStrengths[p] \in 0..Scale

\* the band recommended for the path has got the reliability 1.5 from the
\* feed and the strength the query has returned is the upper bound
C12_Witness ==
    /\ lastCall.op = "calculateSignalStrength"
    /\ \E i \in DOMAIN hf.m_bandDefinitions :
          /\ hf.m_bandDefinitions[i].band = 15
          /\ hf.m_bandDefinitions[i].reliability = 1500
    /\ hf.m_solarFluxIndex = 120
    /\ lastCall.ret = Scale

\* properties of SpecCommunicate

\* C13: two users, neither of them null, who are in the same channel can
\* communicate, whatever their locators, the band mapping and the conditions.
C13_SameChannelCommunicates ==
    (/\ lastCall.op = "canCommunicate"
     /\ lastCall.arg[1] # 0
     /\ lastCall.arg[2] # 0
     /\ UserChannel[lastCall.arg[1]] = UserChannel[lastCall.arg[2]])
    => lastCall.ret = TRUE

\* users 1 and 3 share channel 6 and user 3 has no locator: the answer is yes
C13_Witness ==
    /\ lastCall.op = "canCommunicate"
    /\ lastCall.arg = <<1, 3>>
    /\ qsMetadata[3] = << >>
    /\ lastCall.ret = TRUE

\* the band m_channelBands gives the channel of a user, 0 when it gives none
BandOfUser(u) ==
    IF UserChannel[u] \in DOMAIN hf.m_channelBands
    THEN hf.m_channelBands[UserChannel[u]] ELSE 0

\* the strength calculatePropagation has for the pair once the call is over:
\* the cached value, 0 for a pair with a locator missing
StrengthOf(p) ==
    IF p \in DOMAIN hf.m_signalStrengths THEN hf.m_signalStrengths[p] ELSE 0

\* C14: for two users in different channels canCommunicate follows the
\* decision table: no when a channel has no band; on one band yes iff the
\* strength is at least 0.5; on two bands whose frequencies differ by less
\* than a factor 2 yes iff the strength is at least 0.7; no otherwise.
C14_DecisionTable ==
    (/\ lastCall.op = "canCommunicate"
     /\ lastCall.arg[1] # 0
     /\ lastCall.arg[2] # 0
     /\ UserChannel[lastCall.arg[1]] # UserChannel[lastCall.arg[2]])
    => LET band1 == BandOfUser(lastCall.arg[1])
           band2 == BandOfUser(lastCall.arg[2])
           freq1 == bandToFrequency(hf, band1)
           freq2 == bandToFrequency(hf, band2)
           hi == IF freq1 > freq2 THEN freq1 ELSE freq2
           lo == IF freq1 > freq2 THEN freq2 ELSE freq1
       IN  lastCall.ret =
             IF band1 = 0 \/ band2 = 0 THEN FALSE
             ELSE IF band1 = band2 THEN StrengthOf(lastCall.arg) >= 500
             ELSE IF hi < 2 * lo THEN StrengthOf(lastCall.arg) >= 700
             ELSE FALSE

\* users 1 and 2 are on 20 m and 17 m, less than an octave apart, and the
\* cached strength of the pair is above 0.7: the answer is yes
C14_Witness ==
    /\ lastCall.op = "canCommunicate"
    /\ lastCall.arg = <<1, 2>>
    /\ BandOfUser(1) = 20
    /\ BandOfUser(2) = 17
    /\ StrengthOf(<<1, 2>>) >= 700
    /\ lastCall.ret = TRUE

\* C15: for a pair with an unusable locator calculatePropagation returns 0,
\* and canCommunicate answers no unless the two share a channel.
C15_InvalidLocatorYieldsZero ==
    (/\ lastCall.op \in {"calculatePropagation", "canCommunicate"}
     /\ lastCall.arg[1] # 0
     /\ lastCall.arg[2] # 0
     /\ Len(qsMetadata[lastCall.arg[1]]) < 4 \/ Len(qsMetadata[lastCall.arg[2]]) < 4)
    => IF lastCall.op = "calculatePropagation"
       THEN lastCall.ret = 0
       ELSE lastCall.ret = (UserChannel[lastCall.arg[1]] = UserChannel[lastCall.arg[2]])

\* properties of SpecFetch

\* C16: every request sent to a feed is resolved: its reply is handled, as
\* a merge or as a failure, even when the remote end never answers.
C16_FetchEventuallyResolves ==
    /\ (hf.inFlight.DXView > 0) ~> (lastCall.op = "processDXViewResponse")
    /\ (hf.inFlight.SWPC > 0) ~> (lastCall.op = "processSWPCResponse")

\* properties of SpecRefresh

\* the requests a step has sent to a feed
Dispatched(feed) == hf'.inFlight[feed] - hf.inFlight[feed]

\* C17: a refresh sends requests exactly when external data is enabled and
\* at least 30 minutes have passed since m_lastExternalUpdate: then one to
\* every enabled feed, none to a disabled one, and m_lastExternalUpdate
\* becomes now; any other refresh sends nothing and leaves it alone.
C17_RefreshDispatchesWhenDue ==
    [][lastCall'.op \in {"updatePropagation", "setUseExternalData"}
       => LET due == /\ hf'.m_useExternalData
                     /\ now - hf.m_lastExternalUpdate >= 30
          IN  /\ Dispatched("DXView") = IF due /\ hf.m_useDXViewData THEN 1 ELSE 0
              /\ Dispatched("SWPC") = IF due /\ hf.m_useSWPCData THEN 1 ELSE 0
              /\ hf'.m_lastExternalUpdate =
                     IF due THEN now ELSE hf.m_lastExternalUpdate]_vars

\* the timer's refresh exactly 30 minutes after the last one: DXView, the
\* enabled feed, has been asked, SWPC has not, and the time is recorded
C17_Witness ==
    /\ lastCall.op = "updatePropagation"
    /\ now = 30
    /\ hf.m_useExternalData
    /\ hf.m_useDXViewData
    /\ ~hf.m_useSWPCData
    /\ hf.m_lastExternalUpdate = now
    /\ hf.inFlight = [DXView |-> 1, SWPC |-> 0]

\* C18: a refresh that sends no request, external data being disabled or
\* the last external update less than 30 minutes ago, takes the branch of
\* the internal model: when its 10% draw succeeds, the solar flux index and
\* the K-index move by the drawn steps.
C18_NoDispatchMeansPerturbation ==
    ~(hf.m_useExternalData /\ now - hf.m_lastExternalUpdate >= 30)
    => \A rnd \in Draws :
          rnd.gate
          => LET s == updatePropagation(Enter(hf), rnd)
             IN  /\ s.m_solarFluxIndex
                       = qBound(60, hf.m_solarFluxIndex + rnd.sfiChange, 300)
                 /\ s.m_kIndex = qBound(0, hf.m_kIndex + rnd.kChange, 9)

\* C19: while m_useExternalData is false neither a refresh nor
\* setUseDXViewData / setUseSWPCData sends a request to a feed.
C19_NoDispatchWhileDisabled ==
    [][(/\ lastCall'.op \in {"updatePropagation", "setUseDXViewData",
                             "setUseSWPCData"}
        /\ ~hf.m_useExternalData)
       => /\ Dispatched("DXView") = 0
          /\ Dispatched("SWPC") = 0]_vars

\* setUseDXViewData(true) has been called with external data disabled: the
\* flag is set and no request is out
C19_Witness ==
    /\ lastCall.op = "setUseDXViewData"
    /\ lastCall.arg = TRUE
    /\ ~hf.m_useExternalData
    /\ hf.m_useDXViewData
    /\ hf.inFlight = [DXView |-> 0, SWPC |-> 0]

\* C20: a tick of a timer that arrives while a request of an earlier refresh
\* is still awaiting its reply is suppressed: it runs no refresh, so nothing
\* is cleared, changed or emitted.
C20_TickSuppressedWhileInFlight ==
    [][(/\ lastCall'.op = "updatePropagation"
        /\ hf.inFlight.DXView + hf.inFlight.SWPC > 0)
       => hf' = Enter(hf)]_vars

\* C21: m_mutex is not held at the moment a request is sent to a feed: every
\* get() of the last call was made with no locker of m_mutex open.
C21_RequestIssuedWithLockFree ==
    \A i \in DOMAIN hf.requests : hf.requests[i].mutexDepth = 0

\* properties of SpecHost

\* C22: the queries the host makes while it handles propagationUpdated
\* return: none of them asks for m_mutex while the emitting refresh, which
\* runs the slot, still holds it.
C22_HandlerQueriesReturn ==
    (hf.connected /\ Emitted("propagationUpdated"))
    => hf.selfWait \notin {"solarFluxIndex", "kIndex", "season", "canCommunicate",
                           "calculateSignalStrength"}

\* properties of SpecLate

\* C23: a reply is merged whenever it arrives, be it after later refreshes
\* or after its feed or external data has been switched off: once it has
\* been handled the solar flux index and the K-index are the rounded and
\* clamped values it carried and the cache is empty.
C23_LateReplyMerged ==
    \A feed \in DOMAIN ProcessCall :
        (/\ lastCall.op = ProcessCall[feed]
         /\ ~lastCall.arg.error
         /\ lastCall.arg.body = "object")
        => LET obj == lastCall.arg.obj
               KIndexKey == [DXView |-> "kindex", SWPC |-> "k_index"]
           IN  /\ isDouble(obj, "sfi")
                  => /\ hf.m_solarFluxIndex = qBound(60, qRound(obj["sfi"].v), 300)
                     /\ hf.m_signalStrengths = EmptyMap
               /\ isDouble(obj, KIndexKey[feed])
                  => /\ hf.m_kIndex = qBound(0, qRound(obj[KIndexKey[feed]].v), 9)
                     /\ hf.m_signalStrengths = EmptyMap

\* properties of SpecRegistry

\* C24: once initialize() has run, the band table holds exactly one entry
\* for each of the ten band ids, whatever calls follow.
C24_OneEntryPerBand ==
    LET BandIds == {160, 80, 60, 40, 30, 20, 17, 15, 10, 6}
    IN  hf.m_bandDefinitions # << >>
        => /\ Len(hf.m_bandDefinitions) = Cardinality(BandIds)
           /\ \A b \in BandIds :
                  Cardinality({i \in DOMAIN hf.m_bandDefinitions :
                                  hf.m_bandDefinitions[i].band = b}) = 1

\* properties of SpecBand

\* C25: recommendBand follows the threshold table: day is 6 <= hour < 18;
\* below 500 km 40 m by day and 80 m by night; below 1500 km 20 m / 40 m;
\* below 3000 km by day 15 m if the solar flux index is above 100, else
\* 20 m, by night 20 m; from 3000 km on by day 10 m if the index is above
\* 120, else 15 m, by night 20 m.
C25_RecommendBandTable ==
    lastCall.op = "recommendBand"
    => LET d == lastCall.arg
           day == Hour \in 6..17
           sfi == hf.m_solarFluxIndex
       IN  lastCall.ret =
             CASE d <= 499 -> IF day THEN 40 ELSE 80
               [] d \in 500..1499 -> IF day THEN 20 ELSE 40
               [] d \in 1500..2999 -> IF day /\ sfi >= 101 THEN 15 ELSE 20
               [] d >= 3000 -> IF day /\ sfi >= 121 THEN 10
                               ELSE IF day THEN 15 ELSE 20

\* 500 km at 18:00 is the second bucket by night: 40 m
C25_Witness ==
    /\ lastCall.op = "recommendBand"
    /\ lastCall.arg = 500
    /\ Hour = 18
    /\ lastCall.ret = 40

\* the distance bucket of a path: 1 below 500 km, 2 below 1500 km, 3 below
\* 3000 km, 4 from 3000 km on
Bucket(distance) ==
    CASE distance < 500 -> 1
      [] distance >= 500 /\ distance < 1500 -> 2
      [] distance >= 1500 /\ distance < 3000 -> 3
      [] distance >= 3000 -> 4

\* C26: calculateMUF is the base of the path's distance bucket (7, 14, 21,
\* 28 MHz) times 0.7 + 0.6 * dayFraction, times the season's factor (0.8,
\* 1.1, 1.2, 1.0), times 0.5 + sfi / 200, so that MUF(500, 1.0, Summer, 200)
\* is 32.76 MHz; calculateLUF is the base of the same bucket (1.8, 3.5, 7,
\* 10 MHz) times its day and K factors, which are 1 at a day fraction of
\* 0.625 and a K index of 0.
C26_UsableFrequencies ==
    LET distance == lastCall.arg[1]
        dayFraction == lastCall.arg[2]
        season == lastCall.arg[3]
        sfi == lastCall.arg[4]
        kIndex == lastCall.arg[5]
    IN  /\ lastCall.op = "calculateMUF" =>
            /\ lastCall.ret =
                 (((((<<7000, 14000, 21000, 28000>>[Bucket(distance)]
                      * (700 + (600 * dayFraction) \div Scale)) \div Scale)
                    * <<800, 1100, 1200, 1000>>[season + 1]) \div Scale)
                  * (500 + (sfi * Scale) \div 200)) \div Scale
            /\ (distance = 500 /\ dayFraction = Scale /\ season = 2 /\ sfi = 200)
                   => lastCall.ret = 32760
        /\ lastCall.op = "calculateLUF" =>
            /\ lastCall.ret =
                 (((<<1800, 3500, 7000, 10000>>[Bucket(distance)]
                    * (500 + (800 * dayFraction) \div Scale)) \div Scale)
                  * (Scale + (kIndex * Scale) \div 10)) \div Scale
            /\ (dayFraction = 625 /\ kIndex = 0)
                   => lastCall.ret = <<1800, 3500, 7000, 10000>>[Bucket(distance)]

C26_Witness ==
    /\ lastCall.op = "calculateMUF"
    /\ lastCall.arg = <<500, 1000, 2, 200, 0>>
    /\ lastCall.ret = 32760

\* the place of a letter in the alphabet, from 0, of either case
LetterIndex(c) == IF c >= 97 THEN c - 97 ELSE c - 65

\* the south-west corner of a locator's square, <<latitude, longitude>>
SquareCorner(grid) ==
    <<(LetterIndex(grid[2]) * 10 - 90 + (grid[4] - 48)) * AngUnit,
      (LetterIndex(grid[1]) * 20 - 180 + (grid[3] - 48) * 2) * AngUnit>>

\* C27: gridToLatLon of a locator of fewer than four characters is (0, 0);
\* of four characters it is the square's corner plus 0.5 degree of latitude
\* and 1 degree of longitude; of six characters it is the square's corner
\* plus a 24th of a degree of latitude and two 24ths of a degree of longitude
\* for each step of the sub-square's letters, the centre's offset left out.
C27_LocatorDecoding ==
    LET grid == lastCall.arg[1]
    IN  lastCall.op = "gridToLatLon" =>
            /\ Len(grid) < 4 => lastCall.ret = <<0, 0>>
            /\ Len(grid) = 4 =>
                   lastCall.ret = <<SquareCorner(grid)[1] + AngUnit \div 2,
                                    SquareCorner(grid)[2] + AngUnit>>
            /\ Len(grid) = 6 =>
                   lastCall.ret =
                       <<SquareCorner(grid)[1]
                           + (LetterIndex(grid[6]) * AngUnit) \div 24,
                         SquareCorner(grid)[2]
                           + (LetterIndex(grid[5]) * 2 * AngUnit) \div 24>>

C27_Witness ==
    /\ lastCall.op = "gridToLatLon"
    /\ lastCall.arg[1] = <<70, 78, 50, 48, 118, 114>>
    /\ lastCall.ret = <<1954, -3564>>

\* C29: calculateDistance of two locators is calculateDistance of the same
\* two in the other order, and 0 when the two are the same.
C29_DistanceSymmetric ==
    lastCall.op = "calculateDistance" =>
        /\ lastCall.ret = calculateDistance(lastCall.arg[2], lastCall.arg[1])
        /\ lastCall.arg[1] = lastCall.arg[2] => lastCall.ret = 0

C29_Witness ==
    /\ lastCall.op = "calculateDistance"
    /\ lastCall.arg = <<FN20, JO59>>
    /\ lastCall.ret > 5000

\* C28: after a refresh with m_autoTimeEnabled set, m_season is 0 in the
\* months 12, 1, 2, 1 in the months 3 to 5, 2 in the months 6 to 8 and 3 in
\* the months 9 to 11.
C28_SeasonFollowsMonth ==
    (hf.m_autoTimeEnabled /\ Emitted("propagationUpdated")) =>
        hf.m_season = CASE Month \in {12, 1, 2} -> 0
                        [] Month \in {3, 4, 5} -> 1
                        [] Month \in {6, 7, 8} -> 2
                        [] Month \in {9, 10, 11} -> 3

C28_Witness ==
    /\ lastCall.op = "setSeason"
    /\ lastCall.arg = 1
    /\ hf.m_autoTimeEnabled
    /\ Emitted("propagationUpdated")
    /\ Month = 12
    /\ hf.m_season = 0

\* C30: a finished reply of a feed emits externalDataUpdated once, for that
\* feed, with success exactly when the reply carries a field the feed knows
\* (a number under "sfi", a number under the feed's key of the K index, or
\* for DXView a band label whose digits name a band of the registry, with a
\* number under "quality");
\* when it carries none, nothing else is emitted and every member of the
\* object stays as it was, the cache included.
C30_OneResultPerReply ==
    [][\A feed \in DOMAIN ProcessCall :
          lastCall'.op = ProcessCall[feed] =>
              LET KIndexKey == [DXView |-> "kindex", SWPC |-> "k_index"]
                  Recognized(fd, reply, defs) ==
                      /\ ~reply.error
                      /\ reply.body = "object"
                      /\ LET obj == reply.obj
                         IN  \/ ("sfi" \in DOMAIN obj /\ obj["sfi"].t = "double")
                             \/ (KIndexKey[fd] \in DOMAIN obj /\ obj[KIndexKey[fd]].t = "double")
                             \/ /\ fd = "DXView"
                                /\ "bands" \in DOMAIN obj
                                /\ obj["bands"].t = "object"
                                /\ \E i \in DOMAIN obj["bands"].o :
                                       LET label == obj["bands"].o[i][1]
                                           entry == obj["bands"].o[i][2]
                                       IN  /\ Digits(label) # << >>
                                           /\ entry.t = "object"
                                           /\ "quality" \in DOMAIN entry.o
                                           /\ entry.o["quality"].t = "double"
                                           /\ \E j \in DOMAIN defs :
                                                  defs[j].band = DecimalValue(Digits(label))
                  recognized ==
                      Recognized(feed, lastCall'.arg, hf.m_bandDefinitions)
              IN  /\ SelectSeq(hf'.emitted,
                               LAMBDA e : e.signal = "externalDataUpdated")
                       = << [signal |-> "externalDataUpdated",
                             source |-> feed, success |-> recognized] >>
                  /\ ~recognized =>
                         hf' = [hf EXCEPT
                                  !.emitted = << [signal |-> "externalDataUpdated",
                                                  source |-> feed,
                                                  success |-> FALSE] >>,
                                  !.inFlight[feed] = @ - 1,
                                  !.requests = << >>,
                                  !.selfWait = "none"]]_vars

\* a DXView reply whose only band label names no band of the registry has
\* been handled with the registry filled and the cache holding an entry
C30_Witness ==
    /\ lastCall.op = "processDXViewResponse"
    /\ lastCall.arg =
           Reply(FALSE, "object",
                 [bands |-> Object(<< <<Label99m, Object([quality |-> Double(80)])>> >>)])
    /\ hf.m_bandDefinitions # << >>
    /\ hf.m_signalStrengths # EmptyMap
    /\ hf.emitted = << [signal |-> "externalDataUpdated",
                        source |-> "DXView", success |-> FALSE] >>

\* C31: a refresh moves m_solarFluxIndex by 20 at most and m_kIndex by 2 at
\* most, and moves neither when it runs with m_useExternalData set.
C31_RefreshStepBounded ==
    [][lastCall'.op \in {"updatePropagation", "setUseExternalData",
                         "setUseDXViewData", "setUseSWPCData"}
       => /\ hf'.m_solarFluxIndex - hf.m_solarFluxIndex \in -20..20
          /\ hf'.m_kIndex - hf.m_kIndex \in -2..2
          /\ hf'.m_useExternalData =>
                 /\ hf'.m_solarFluxIndex = hf.m_solarFluxIndex
                 /\ hf'.m_kIndex = hf.m_kIndex]_vars

\* a refresh of the timer has lowered the solar flux index by 20 a second
\* time and raised the K index by 2 a second time
C31_Witness ==
    /\ lastCall.op = "updatePropagation"
    /\ ~hf.m_useExternalData
    /\ hf.m_solarFluxIndex = 80
    /\ hf.m_kIndex = 7

\* C32: a call that refreshes (the timer's, setUseExternalData, a reply that
\* was merged) emits propagationUpdated once, as the last signal of the call
\* and after every request the call has sent, and leaves the cache empty; a
\* call that does not refresh emits none.
C32_NotificationLast ==
    LET n == Len(hf.emitted)
        refreshed ==
            \/ lastCall.op \in {"updatePropagation", "setUseExternalData"}
            \/ \E i \in 1..n : /\ hf.emitted[i].signal = "externalDataUpdated"
                               /\ hf.emitted[i].success
    IN  /\ Len(SelectSeq(hf.emitted, LAMBDA e : e.signal = "propagationUpdated"))
             = IF refreshed THEN 1 ELSE 0
        /\ refreshed =>
               /\ hf.emitted[n].signal = "propagationUpdated"
               /\ hf.m_signalStrengths = EmptyMap
               /\ \A i \in DOMAIN hf.requests : hf.requests[i].emitted < n

\* setUseExternalData(true) has refreshed with an entry in the cache and a
\* feed enabled: the request is out, the cache is empty, the signal follows
C32_Witness ==
    /\ lastCall.op = "setUseExternalData"
    /\ lastCall.cached # {}
    /\ hf.requests # << >>
    /\ hf.m_signalStrengths = EmptyMap
    /\ hf.emitted = << [signal |-> "propagationUpdated"] >>

C34_MergeTouchesNamedReliabilityOnly ==
    [][\A i \in DOMAIN hf.m_bandDefinitions :
          LET before == hf.m_bandDefinitions[i]
              after == hf'.m_bandDefinitions[i]
              reply == lastCall'.arg
          IN  /\ i \in DOMAIN hf'.m_bandDefinitions
              /\ [after EXCEPT !.reliability = 0] = [before EXCEPT !.reliability = 0]
              /\ after.reliability # before.reliability =>
                     /\ lastCall'.op = "processDXViewResponse"
                     /\ ~reply.error
                     /\ reply.body = "object"
                     /\ "bands" \in DOMAIN reply.obj
                     /\ \E k \in DOMAIN reply.obj["bands"].o :
                            LET label == reply.obj["bands"].o[k][1]
                            IN  /\ Digits(label) # << >>
                                /\ DecimalValue(Digits(label)) = before.band]_vars

\* the merge of {"bands": {"10m": {"quality": 15}, "15m": {"quality": -3}}}
\* has rewritten the reliabilities of the 10 m and 15 m bands and left the
\* 20 m band's 0.95 and the 160 m band's 0.8
C34_Witness ==
    /\ lastCall.op = "processDXViewResponse"
    /\ lastCall.arg \in QualityReplies
    /\ Len(hf.m_bandDefinitions) = 10
    /\ \E i, j, k, l \in DOMAIN hf.m_bandDefinitions :
           /\ hf.m_bandDefinitions[i].band = 10
           /\ hf.m_bandDefinitions[i].reliability = 1500
           /\ hf.m_bandDefinitions[j].band = 15
           /\ hf.m_bandDefinitions[j].reliability = -300
           /\ hf.m_bandDefinitions[k] = Band(20, 14175, 1000, 10000, 950, 1300, 700)
           /\ hf.m_bandDefinitions[l] = Band(160, 1900, 0, 1000, 800, 500, 1500)

\* C35: while m_autoTimeEnabled is false no step but setSeason changes
\* m_season, and the first step after a setSeason that leaves
\* m_autoTimeEnabled false leaves in m_season the value that setSeason was
\* given, clamped to 0..3.
C35_SeasonKeptWithoutAutoTime ==
    [][/\ (~hf.m_autoTimeEnabled /\ ~hf'.m_autoTimeEnabled
            /\ lastCall'.op # "setSeason")
           => hf'.m_season = hf.m_season
       /\ (lastCall.op = "setSeason" /\ ~hf'.m_autoTimeEnabled
            /\ lastCall'.op # "setSeason")
           => hf'.m_season = qBound(0, lastCall.arg, 3)]_vars

\* C36: once initialize() has run, getChannelBand gives the channels 1 to 10
\* the bands 160, 80, 60, 40, 30, 20, 17, 15, 10, 6 in this order and every
\* other argument 0, getBandChannel gives each of these bands its channel
\* and every other argument 0, and in every state that follows each of the
\* two undoes the other.
C36_ChannelMapsInverse ==
    LET bands == <<160, 80, 60, 40, 30, 20, 17, 15, 10, 6>>
    IN  hf.m_bandChannels # EmptyMap =>
            /\ lastCall.op = "getChannelBand" =>
                   lastCall.ret = IF lastCall.arg \in 1..10
                                  THEN bands[lastCall.arg] ELSE 0
            /\ lastCall.op = "getBandChannel" =>
                   /\ lastCall.ret \in 0..10
                   /\ lastCall.ret # 0 => bands[lastCall.ret] = lastCall.arg
                   /\ lastCall.ret = 0 => \A c \in 1..10 : bands[c] # lastCall.arg
            /\ \A c \in 1..10 :
                   getBandChannel(hf, getChannelBand(hf, c).ret).ret = c
            /\ \A c \in 1..10 :
                   getChannelBand(hf, getBandChannel(hf, bands[c]).ret).ret = bands[c]

\* the channel of the 17 m band has been asked for after a DXView merge
C36_Witness ==
    /\ lastCall.op = "getBandChannel"
    /\ lastCall.arg = 17
    /\ lastCall.ret = 7
    /\ \E i \in DOMAIN hf.m_bandDefinitions :
           /\ hf.m_bandDefinitions[i].band = 20
           /\ hf.m_bandDefinitions[i].reliability = 800

\* C37: each feed has at most one request in flight: no call (a refresh,
\* setUseDXViewData, setUseSWPCData) sends a request for a feed while an
\* earlier request of that feed is unresolved.
C37_OneRequestPerFeed ==
    [][\A feed \in DOMAIN hf.inFlight :
           hf'.inFlight[feed] > hf.inFlight[feed] => hf.inFlight[feed] = 0]_vars

\* C38: a calculatePropagation that returns 0 because a user is null or has
\* no locator leaves m_signalStrengths as it was, with no entry for the
\* pair; a query of the pair made right after the missing locator has been
\* stored, with no refresh in between, computes the strength and stores it.
C38_ZeroNotMemoized ==
    [][/\ (lastCall'.op = "calculatePropagation" /\ ~Queryable(lastCall'.arg))
          => /\ lastCall'.ret = 0
             /\ hf'.m_signalStrengths = hf.m_signalStrengths
             /\ lastCall'.arg \notin DOMAIN hf'.m_signalStrengths
       /\ (/\ lastCall.op = "setMetadata"
           /\ lastCall'.op = "calculatePropagation"
           /\ lastCall.arg \in {lastCall'.arg[1], lastCall'.arg[2]}
           /\ Queryable(lastCall'.arg))
          => /\ lastCall'.arg \notin DOMAIN hf.m_signalStrengths
             /\ lastCall'.ret \in FreshStrengths(hf, lastCall'.arg)
             /\ hf'.m_signalStrengths =
                    Insert(hf.m_signalStrengths, lastCall'.arg, lastCall'.ret)]_vars

\* the pair of user 1 and user 3, who has no locator, has been asked for
\* while the cache held the strength of another pair
C38_Witness ==
    /\ lastCall.op = "calculatePropagation"
    /\ lastCall.arg = <<1, 3>>
    /\ qsMetadata[3] = << >>
    /\ lastCall.ret = 0
    /\ DOMAIN hf.m_signalStrengths = {<<1, 2>>}
    /\ hf.m_signalStrengths[<<1, 2>>] > 0


\* C39: the strength Server::updateAudioRouting reports for a pair is the
\* strength memoized for the pair, the one canCommunicate compared with its
\* threshold.
C39_ReportedStrengthIsMemoized ==
    (/\ lastCall.op = "updateAudioRouting"
     /\ lastCall.arg \in DOMAIN hf.m_signalStrengths)
    => lastCall.ret.strength = <<hf.m_signalStrengths[lastCall.arg]>>


\* C40: recommendBand returns one of 80, 40, 20, 15, 10, a band that has an
\* entry in the table once initialize() has run; calculateSignalStrength
\* then finds the definition of its band, so its result does not depend on
\* what an unset BandDefinition holds.
C40_RecommendedBandDefined ==
    /\ lastCall.op = "recommendBand"
       => /\ lastCall.ret \in {80, 40, 20, 15, 10}
          /\ hf.m_bandDefinitions # << >>
             => \E i \in DOMAIN hf.m_bandDefinitions :
                    hf.m_bandDefinitions[i].band = lastCall.ret
    /\ (lastCall.op = "calculateSignalStrength" /\ hf.m_bandDefinitions # << >>)
       => \A unset \in UnsetDefs :
              lastCall.ret = calculateSignalStrength(hf, lastCall.arg[1], lastCall.arg[2],
                                                     800, unset).ret

\* a strength computed over 2520 km by day with a solar flux index above
\* 100, where the 15 m band is recommended
C40_Witness ==
    /\ lastCall.op = "calculateSignalStrength"
    /\ lastCall.arg = <<FN20, <<68, 78, 55, 48>>>>
    /\ hf.m_bandDefinitions # << >>
    /\ Hour = 12
    /\ hf.m_solarFluxIndex = 101
    /\ recommendBand(hf, 2520).ret = 15
    /\ lastCall.ret > 0

====
